---- MODULE Spec2Model ----
(***************************************************************************)
(* A model of parts of quic-go: the mutex/condition-variable based stream  *)
(* (Read, Write, AddStreamFrame, RegisterError,                            *)
(* UpdateSendFlowControlWindow), the packet packer and the received-packet *)
(* handler.  Each component has its own specification; the variables of    *)
(* the other components stay unchanged in it.                              *)
(***************************************************************************)
EXTENDS Integers, Sequences, FiniteSets, TLC

(***************************************************************************)
(* Bounds of the model.                                                    *)
(***************************************************************************)
\* number of bytes the peer sends on the stream before FIN
StreamLen == 2
\* largest len(p) passed to Read
MaxRead == 2
\* largest number of frames held by the frame queue
MaxQueue == 2
\* largest len(p) passed to Write
MaxWrite == 2
\* largest offset a WindowUpdate raises the send window to
MaxSendWindow == 3
\* largest packet number a peer sends
MaxPacketNumber == 6
\* the packer stops at this packet number
MaxSentPacketNumber == 3
\* largest number of frames in the packer's queue of control frames
MaxControlFrames == 2
\* largest number of bytes of stream data queued in the stream framer
MaxStreamBytes == 1
\* protocol.MaxFrameAndPublicHeaderSize less the public header, in the
\* model's bytes
MaxFrameSize == 4
\* protocol.NonForwardSecurePacketSizeReduction, in the model's bytes
NonForwardSecurePacketSizeReduction == 2
\* frame lengths, in the model's bytes
AckFrameLength == 2
WindowUpdateFrameLength == 3
BlockedFrameLength == 2
StopWaitingFrameLength == 2
ConnectionCloseFrameLength == 2
StreamFrameHeaderLength == 3
\* the sender: the bytes of a full packet, the largest packet number sent,
\* the packets of a congestion event, the windows it starts with
DefaultTCPMSS == 2
MaxCubicPacket == 3
MaxVector == 2
InitialCongestionWindow == 3
MaxCongestionWindow == 5
\* the server: the connection IDs, the version numbers a packet can carry
MaxConnectionID == 3
MaxVersionNumber == 2
\* the ACK frame codec: the values a byte of a number holds (256 in the
\* code; the type byte keeps its eight bits), the NACK ranges of a frame
ByteBase == 4
MaxNackRanges == 2
\* the connection parameters: protocol.InitialIdleConnectionStateLifetime
\* and protocol.MaxIdleConnectionStateLifetime in seconds (30 and 60 in the
\* protocol package), the largest value a client sends
InitialIdleConnectionStateLifetime == 1
MaxIdleConnectionStateLifetime == 2
MaxClientValue == 3
\* the client session cache: the revision written in front of a session
\* state, the longest entry of the wrapped cache, the largest RTT saved
clientSessionStateRevision == 1
MaxEntryLen == 4
MaxSavedRTT == 1
\* the channel-based stream: the room in the channel streamFrames (8 at line
\* 37), the number of sends of the session
streamFramesCapacity == 2
MaxChanFrames == 4

(***************************************************************************)
(* Values.                                                                 *)
(***************************************************************************)
NoErr == "nil"
EOF == "io.EOF"
Errors == {"e1", "e2"}
errFlowControlViolation == "FlowControlReceivedTooMuchData"
errQueue == "queueStreamFrameFailed"

Min(a, b) == IF a < b THEN a ELSE b

\* the bytes of the peer's stream: the byte at offset o is o + 1
StreamData == [i \in 1..StreamLen |-> i]
\* the bytes the application passes to Write(p) with len(p) = n
WriteData(n) == [i \in 1..n |-> i]

\* s[pos : pos+m] of Go, on a 1-based sequence
SubSeqFrom(s, pos, m) == [i \in 1..m |-> s[pos + i]]

StreamFrame(o, e, fin) ==
    [Offset |-> o, Data |-> SubSeqFrom(StreamData, o, e - o), FinBit |-> fin]

\* a nil *frames.StreamFrame
NoFrame == [Offset |-> -1, Data |-> <<>>, FinBit |-> FALSE]

\* the frames a peer can send for the stream: every non-empty slice of the
\* data, and every slice that ends at the final offset with the FIN bit set
\* (Close sends an empty FIN frame at the final offset)
AllFrames ==
    {StreamFrame(o, e, FALSE) : o \in 0..(StreamLen - 1), e \in 1..StreamLen}
        \cup {StreamFrame(o, StreamLen, TRUE) : o \in 0..StreamLen}

FrameEnd(f) == f.Offset + Len(f.Data)

VARIABLES
    \* stream fields
    frameQueue, readPosInFrame, writeOffset, readOffset, err, eof, closed, mutex,
    \* flowController fields
    bytesSent, sendFlowControlWindow, bytesRead, highestReceived,
    receiveFlowControlWindow,
    \* the goroutine in Read: position, len(p), bytesRead, frame, result
    rpc, rLen, rBytesRead, rFrame, rRet, rErrWake,
    \* every byte Read has copied into p, in order
    delivered,
    \* the goroutine in Write: position, len(p), dataWritten,
    \* remainingBytesInWindow, result, frames passed to queueStreamFrame
    wpc, wLen, wDataWritten, wRem, wRet, wStart, wFrames, wErrWake,
    \* the session goroutine: position, frame of AddStreamFrame, result
    spc, sFrame, sRet,
    \* offsets of the stream pushed onto the frame queue so far, FIN pushed
    received, finReceived,
    \* receivedPacketHandler fields
    highestInOrderObserved, largestObserved, packetHistory, currentAckFrame,
    stateChanged,
    \* the last call of the received-packet handler and what it returned, the
    \* packet numbers ReceivedPacket accepted
    hCall, hRet, accepted,
    \* packetPacker fields
    controlFrames, stopWaiting, perspective,
    \* packetNumberGenerator: the next packet number; cryptoSetup: the highest
    \* encryption level with a sealer
    nextPacketNumber, encLevel,
    \* streamFramer: a crypto stream frame is queued, bytes of stream data
    \* queued, BlockedFrames queued
    hasCryptoStreamFrame, streamBytes, blockedFrames,
    \* the last call of the packer and what it returned, what payloadFrames
    \* held when it reached line 134
    pCall, pRet, pPayload,
    \* the numbers Pop handed out, the numbers of the packets returned
    popped, returned,
    \* cubicSender's fields
    cubicSender,
    \* the last call of the sender and what it returned
    cCall, cRet,
    \* outgoingPacketAckHandler's fields (its packetHistory as the set of
    \* the packet numbers in it), its last call and what that returned
    lastSentPacketNumber, sentPacketHistory, oCall, oRet,
    \* the channel-based stream's fields: the frames in the channel
    \* streamFrames, currentFrame, readPosInFrame, readOffset, frameQueue,
    \* remoteErr, currentErr
    streamFrames, currentFrame, chanReadPosInFrame, chanReadOffset, chanFrameQueue,
    remoteErr, currentErr,
    \* where its Read is and what it returned, the send of the session that
    \* waits for room in the channel, the number of sends so far
    chanReader, chanRet, chanSession, chanDelivered,
    \* the server's sessions (the connection IDs in the map), its last
    \* handlePacket call with what the call did
    sessions, srvCall,
    \* the ACK frame codec: the frame last written with the bytes Write
    \* appended, the last call with what it returned
    ackBuf, ackCall,
    \* the ConnectionParametersManager's fields, its last SetFromMap call
    connectionParameters, cpCall,
    \* the client session cache: the entry of the wrapped cache for the
    \* server name, the last call with what it returned
    sessionCache, cscCall,
    \* the CryptoSetup's fields, where HandleCryptoStream is, the last call
    \* with what it did, the levels of the keys that have opened a packet, the
    \* level of the keys of the last Seal
    cryptoSetup, csLoop, csCall, csOpened, csSealed

streamVars ==
    <<frameQueue, readPosInFrame, writeOffset, readOffset, err, eof, closed, mutex,
      bytesSent, sendFlowControlWindow, bytesRead, highestReceived,
      receiveFlowControlWindow,
      rpc, rLen, rBytesRead, rFrame, rRet, rErrWake, delivered,
      wpc, wLen, wDataWritten, wRem, wRet, wStart, wFrames, wErrWake,
      spc, sFrame, sRet, received, finReceived>>

readerVars == <<rpc, rLen, rBytesRead, rFrame, rRet, rErrWake, delivered>>
writerVars == <<wpc, wLen, wDataWritten, wRem, wRet, wStart, wFrames, wErrWake>>
sessionVars == <<spc, sFrame, sRet>>
readSideVars ==
    <<frameQueue, readPosInFrame, readOffset, eof, bytesRead, highestReceived,
      receiveFlowControlWindow, received, finReceived>>
writeSideVars == <<writeOffset, bytesSent, sendFlowControlWindow>>

handlerVars ==
    <<highestInOrderObserved, largestObserved, packetHistory, currentAckFrame,
      stateChanged, hCall, hRet, accepted>>

packerVars ==
    <<controlFrames, stopWaiting, perspective, nextPacketNumber, encLevel,
      hasCryptoStreamFrame, streamBytes, blockedFrames,
      pCall, pRet, pPayload, popped, returned>>

congestionVars == <<cubicSender, cCall, cRet>>

sentVars == <<lastSentPacketNumber, sentPacketHistory, oCall, oRet>>

chanVars ==
    <<streamFrames, currentFrame, chanReadPosInFrame, chanReadOffset, chanFrameQueue,
      remoteErr, currentErr, chanReader, chanRet, chanSession, chanDelivered>>

serverVars == <<sessions, srvCall>>

codecVars == <<ackBuf, ackCall>>

paramsVars == <<connectionParameters, cpCall>>

cacheVars == <<sessionCache, cscCall>>

cryptoVars == <<cryptoSetup, csLoop, csCall, csOpened, csSealed>>

vars ==
    <<streamVars, handlerVars, packerVars, congestionVars, sentVars, chanVars,
      serverVars, codecVars, paramsVars, cacheVars, cryptoVars>>

(***************************************************************************)
(* flowController and streamFrameSorter.                                   *)
(***************************************************************************)
\* connection parameters the flow controller starts from
InitialSendWindow == 1
InitialReceiveWindow == 1
ReceiveWindowIncrement == 1

SendWindowSize(window, sent) == IF sent > window THEN 0 ELSE window - sent

UpdateSendWindow(window, n) == IF n > window THEN n ELSE window

UpdateHighestReceived(highest, byteOffset) ==
    IF byteOffset > highest THEN byteOffset ELSE highest

CheckFlowControlViolation(highest, window) == highest > window

\* the receive window after MaybeTriggerWindowUpdate: raised once the
\* consumed bytes exceed a quarter of the current window
MaybeTriggerWindowUpdate(window, read) ==
    IF 4 * read > window THEN window + ReceiveWindowIncrement ELSE window

\* the frame queue orders the frames by Offset; frames of equal Offset stay
\* in the order they were pushed
SorterPush(q, f) ==
    LET k == Cardinality({i \in 1..Len(q) : q[i].Offset <= f.Offset})
    IN  SubSeq(q, 1, k) \o <<f>> \o SubSeq(q, k + 1, Len(q))

SorterHead(q) == IF q = <<>> THEN NoFrame ELSE Head(q)

SorterPop(q) == IF q = <<>> THEN q ELSE Tail(q)

(***************************************************************************)
(* stream.Read                                                             *)
(***************************************************************************)
NoRet == [n |-> 0, err |-> NoErr]

\* Read returns (n, e)
ReadReturn(n, e) ==
    /\ rpc' = "idle"
    /\ rRet' = [n |-> n, err |-> e]
    /\ rLen' = 0
    /\ rBytesRead' = 0
    /\ rFrame' = NoFrame

\* Read, lines 85-90: pop the frames at the head that hold no new data
RECURSIVE DropStale(_, _)
DropStale(q, ro) ==
    IF q # <<>> /\ FrameEnd(Head(q)) <= ro /\ ~Head(q).FinBit
    THEN DropStale(Tail(q), ro)
    ELSE q

\* Read, line 93: data can be read from the frame at the head
Readable(frame, ro) == frame # NoFrame /\ frame.Offset <= ro

\* Read, lines 110-120: copy from frame into p[bytesRead:]
ReadCopy(frame, pos) ==
    IF pos > Len(frame.Data)
    THEN \* frame.Data[readPosInFrame:] panics: slice bounds out of range
         /\ rpc' = "panic"
         /\ readPosInFrame' = pos
         /\ UNCHANGED <<rRet, rLen, rFrame, rBytesRead, readOffset, bytesRead,
                        receiveFlowControlWindow, delivered>>
    ELSE LET m == Min(rLen - rBytesRead, Len(frame.Data) - pos)
             done == pos + m >= Len(frame.Data)
         IN  /\ delivered' = delivered \o SubSeqFrom(frame.Data, pos, m)
             /\ readPosInFrame' = pos + m
             /\ rBytesRead' = rBytesRead + m
             /\ readOffset' = readOffset + m
             /\ bytesRead' = bytesRead + m
             /\ receiveFlowControlWindow' =
                    MaybeTriggerWindowUpdate(receiveFlowControlWindow, bytesRead + m)
             /\ rFrame' = IF done THEN frame ELSE NoFrame
             /\ rpc' = IF done THEN "pop" ELSE "loop"
             /\ UNCHANGED <<rRet, rLen>>

\* Read, lines 79-118: the loop that waits for a readable frame or an error,
\* run with the mutex held, and what follows its break
ReadWaitLoop ==
    IF err # NoErr
    THEN \* line 81: stop waiting on errors, frame is the head as it is
         LET frame == SorterHead(frameQueue)
         IN  /\ UNCHANGED frameQueue
             /\ IF frame = NoFrame
                THEN /\ eof' = 1
                     /\ ReadReturn(rBytesRead, err)
                     /\ UNCHANGED <<readOffset, bytesRead, receiveFlowControlWindow,
                                    delivered, readPosInFrame>>
                ELSE /\ ReadCopy(frame, readPosInFrame)
                     /\ UNCHANGED eof
    ELSE LET q == DropStale(frameQueue, readOffset)
             frame == SorterHead(q)
         IN  /\ frameQueue' = q
             /\ UNCHANGED eof
             /\ IF Readable(frame, readOffset)
                THEN ReadCopy(frame, readOffset - frame.Offset)
                ELSE \* line 99: newFrameOrErrCond.Wait()
                     /\ rpc' = "wait"
                     /\ UNCHANGED <<rRet, rLen, rFrame, rBytesRead, readOffset, bytesRead,
                                    receiveFlowControlWindow, delivered,
                                    readPosInFrame>>

\* Read, lines 64-69
ReadCall(n) ==
    /\ rpc = "idle"
    /\ rErrWake' = FALSE
    /\ IF eof # 0
       THEN ReadReturn(0, EOF)
       ELSE /\ rpc' = "loop"
            /\ rLen' = n
            /\ rBytesRead' = 0
            /\ rRet' = NoRet
            /\ UNCHANGED rFrame
    /\ UNCHANGED <<delivered, readSideVars, err, closed, mutex>>
    /\ UNCHANGED <<writeSideVars, writerVars, sessionVars>>
    /\ UNCHANGED <<handlerVars, packerVars, congestionVars, sentVars,
                   chanVars, serverVars, codecVars, paramsVars, cacheVars,
                   cryptoVars>>

\* Read, lines 70 and 132: the loop ends with p full
ReadLoopExit ==
    /\ rpc = "loop"
    /\ rBytesRead >= rLen
    /\ ReadReturn(rBytesRead, NoErr)
    /\ UNCHANGED <<rErrWake, delivered, readSideVars, err, closed, mutex>>
    /\ UNCHANGED <<writeSideVars, writerVars, sessionVars>>
    /\ UNCHANGED <<handlerVars, packerVars, congestionVars, sentVars,
                   chanVars, serverVars, codecVars, paramsVars, cacheVars,
                   cryptoVars>>

\* Read, lines 71-118
ReadLoop ==
    /\ rpc = "loop"
    /\ rBytesRead < rLen
    /\ mutex = "free"
    /\ IF SorterHead(frameQueue) = NoFrame /\ rBytesRead > 0
       THEN /\ ReadReturn(rBytesRead, err)
            /\ UNCHANGED <<frameQueue, eof, readOffset, bytesRead,
                           receiveFlowControlWindow, delivered, readPosInFrame>>
       ELSE ReadWaitLoop
    /\ UNCHANGED <<rErrWake, highestReceived, received, finReceived,
                   err, closed, mutex>>
    /\ UNCHANGED <<writeSideVars, writerVars, sessionVars>>
    /\ UNCHANGED <<handlerVars, packerVars, congestionVars, sentVars,
                   chanVars, serverVars, codecVars, paramsVars, cacheVars,
                   cryptoVars>>

\* Read, lines 99-118: Wait returns with the mutex held
ReadWake ==
    /\ rpc = "woken"
    /\ mutex = "free"
    /\ ReadWaitLoop
    /\ UNCHANGED <<rErrWake, highestReceived, received, finReceived,
                   err, closed, mutex>>
    /\ UNCHANGED <<writeSideVars, writerVars, sessionVars>>
    /\ UNCHANGED <<handlerVars, packerVars, congestionVars, sentVars,
                   chanVars, serverVars, codecVars, paramsVars, cacheVars,
                   cryptoVars>>

\* Read, lines 120-129
ReadPop ==
    /\ rpc = "pop"
    /\ mutex = "free"
    /\ frameQueue' = SorterPop(frameQueue)
    /\ IF rFrame.FinBit
       THEN /\ eof' = 1
            /\ ReadReturn(rBytesRead, EOF)
       ELSE /\ rpc' = "loop"
            /\ rFrame' = NoFrame
            /\ UNCHANGED <<eof, rRet, rLen, rBytesRead>>
    /\ UNCHANGED <<rErrWake, delivered, readPosInFrame,
                   readOffset, bytesRead, highestReceived, receiveFlowControlWindow,
                   received, finReceived, err, closed, mutex>>
    /\ UNCHANGED <<writeSideVars, writerVars, sessionVars>>
    /\ UNCHANGED <<handlerVars, packerVars, congestionVars, sentVars,
                   chanVars, serverVars, codecVars, paramsVars, cacheVars,
                   cryptoVars>>

(***************************************************************************)
(* stream.AddStreamFrame and stream.RegisterError (session goroutine)      *)
(***************************************************************************)
\* AddStreamFrame, line 207: the frame is refused
Refused_Never(highest, window) == FALSE

Refused(highest, window) == CheckFlowControlViolation(highest, window)

\* AddStreamFrame, lines 205-209.  The model bounds the frames the session
\* hands over: at most MaxQueue are queued, and none after it registered an
\* error
AddStreamFrameCheck(frame) ==
    /\ spc = "idle"
    /\ Len(frameQueue) < MaxQueue
    /\ err = NoErr
    /\ LET maxOffset == FrameEnd(frame)
           highest == UpdateHighestReceived(highestReceived, maxOffset)
       IN  /\ highestReceived' = highest
           /\ IF Refused(highest, receiveFlowControlWindow)
              THEN /\ sRet' = errFlowControlViolation
                   /\ UNCHANGED <<spc, sFrame>>
              ELSE /\ spc' = "push"
                   /\ sFrame' = frame
                   /\ sRet' = NoErr
    /\ UNCHANGED <<frameQueue, readPosInFrame, readOffset, eof, bytesRead,
                   receiveFlowControlWindow, received, finReceived,
                   err, closed, mutex, readerVars>>
    /\ UNCHANGED <<writeSideVars, writerVars>>
    /\ UNCHANGED <<handlerVars, packerVars, congestionVars, sentVars,
                   chanVars, serverVars, codecVars, paramsVars, cacheVars,
                   cryptoVars>>

\* AddStreamFrame, lines 211-213
AddStreamFramePush ==
    /\ spc = "push"
    /\ mutex = "free"
    /\ frameQueue' = SorterPush(frameQueue, sFrame)
    /\ received' = received \cup (sFrame.Offset..(FrameEnd(sFrame) - 1))
    /\ finReceived' = (finReceived \/ sFrame.FinBit)
    /\ spc' = "signal"
    /\ sFrame' = NoFrame
    /\ UNCHANGED <<sRet, readPosInFrame, readOffset, eof, bytesRead,
                   highestReceived, receiveFlowControlWindow,
                   err, closed, mutex, readerVars>>
    /\ UNCHANGED <<writeSideVars, writerVars>>
    /\ UNCHANGED <<handlerVars, packerVars, congestionVars, sentVars,
                   chanVars, serverVars, codecVars, paramsVars, cacheVars,
                   cryptoVars>>

\* AddStreamFrame, lines 214-215: newFrameOrErrCond.Signal()
AddStreamFrameSignal ==
    /\ spc = "signal"
    /\ rpc' = IF rpc = "wait" THEN "woken" ELSE rpc
    /\ spc' = "idle"
    /\ UNCHANGED <<sFrame, sRet, rLen, rBytesRead, rFrame, rRet, rErrWake, delivered,
                   readSideVars, err, closed, mutex>>
    /\ UNCHANGED <<writeSideVars, writerVars>>
    /\ UNCHANGED <<handlerVars, packerVars, congestionVars, sentVars,
                   chanVars, serverVars, codecVars, paramsVars, cacheVars,
                   cryptoVars>>

\* RegisterError, lines 244-245: the goroutine that Signal wakes on a
\* condition variable, given the position of the one that may wait on it
SignalOnError(pc) == IF pc = "wait" THEN "woken" ELSE pc

\* RegisterError, lines 236-246
RegisterError(e) ==
    /\ spc = "idle"
    /\ mutex = "free"
    /\ closed' = 1
    /\ IF err # NoErr
       THEN UNCHANGED <<err, rpc, wpc, rErrWake, wErrWake>>
       ELSE /\ err' = e
            /\ wpc' = SignalOnError(wpc)
            /\ rpc' = SignalOnError(rpc)
            /\ rErrWake' = (rpc = "wait")
            /\ wErrWake' = (wpc = "wait")
    /\ UNCHANGED <<sessionVars, mutex, readSideVars, writeSideVars,
                   rLen, rBytesRead, rFrame, rRet, delivered,
                   wLen, wDataWritten, wRem, wRet, wStart, wFrames>>
    /\ UNCHANGED <<handlerVars, packerVars, congestionVars, sentVars,
                   chanVars, serverVars, codecVars, paramsVars, cacheVars,
                   cryptoVars>>

(***************************************************************************)
(* stream.Write and stream.UpdateSendFlowControlWindow                     *)
(***************************************************************************)
\* Write returns (n, e)
WriteReturn(n, e) ==
    /\ wpc' = "idle"
    /\ wRet' = [n |-> n, err |-> e]
    /\ wDataWritten' = 0
    /\ wRem' = 0

\* Write, line 173
WriteDataLen_IgnoreWindow(plen, remaining) == plen

WriteDataLen(plen, remaining) == Min(plen, remaining)

\* Write, lines 174-175: data := make([]byte, dataLen); copy(data, p)
WriteChunk(p, written, dataLen) == SubSeqFrom(p, 0, dataLen)

\* Write, lines 149-157
WriteCall(n) ==
    /\ wpc = "idle"
    /\ mutex = "free"
    /\ wErrWake' = FALSE
    /\ wLen' = n
    /\ wStart' = writeOffset
    /\ wFrames' = <<>>
    /\ IF err # NoErr
       THEN WriteReturn(0, err)
       ELSE /\ wpc' = "loop"
            /\ wDataWritten' = 0
            /\ wRet' = NoRet
            /\ UNCHANGED wRem
    /\ UNCHANGED <<writeSideVars, err, closed, mutex>>
    /\ UNCHANGED <<readSideVars, readerVars, sessionVars>>
    /\ UNCHANGED <<handlerVars, packerVars, congestionVars, sentVars,
                   chanVars, serverVars, codecVars, paramsVars, cacheVars,
                   cryptoVars>>

\* Write, lines 159 and 190
WriteLoopExit ==
    /\ wpc = "loop"
    /\ wDataWritten >= wLen
    /\ WriteReturn(wLen, NoErr)
    /\ UNCHANGED <<wLen, wStart, wFrames, wErrWake, writeSideVars, err,
                   closed, mutex>>
    /\ UNCHANGED <<readSideVars, readerVars, sessionVars>>
    /\ UNCHANGED <<handlerVars, packerVars, congestionVars, sentVars,
                   chanVars, serverVars, codecVars, paramsVars, cacheVars,
                   cryptoVars>>

\* Write, lines 160-161: Lock and read the window
WriteLock ==
    /\ wpc = "loop"
    /\ wDataWritten < wLen
    /\ mutex = "free"
    /\ mutex' = "writer"
    /\ wRem' = SendWindowSize(sendFlowControlWindow, bytesSent)
    /\ wpc' = "check"
    /\ UNCHANGED <<wLen, wDataWritten, wRet, wStart, wFrames, wErrWake,
                   writeSideVars, err, closed>>
    /\ UNCHANGED <<readSideVars, readerVars, sessionVars>>
    /\ UNCHANGED <<handlerVars, packerVars, congestionVars, sentVars,
                   chanVars, serverVars, codecVars, paramsVars, cacheVars,
                   cryptoVars>>

\* Write, lines 162-166: Wait, or leave the loop and Unlock
WriteCheck ==
    /\ wpc = "check"
    /\ mutex = "writer"
    /\ mutex' = "free"
    /\ wpc' = IF wRem = 0 /\ err = NoErr THEN "wait" ELSE "send"
    /\ UNCHANGED <<wLen, wDataWritten, wRem, wRet, wStart, wFrames, wErrWake,
                   writeSideVars, err, closed>>
    /\ UNCHANGED <<readSideVars, readerVars, sessionVars>>
    /\ UNCHANGED <<handlerVars, packerVars, congestionVars, sentVars,
                   chanVars, serverVars, codecVars, paramsVars, cacheVars,
                   cryptoVars>>

\* Write, lines 163-164: Wait returns with the mutex held, the window is read
WriteWake ==
    /\ wpc = "woken"
    /\ mutex = "free"
    /\ mutex' = "writer"
    /\ wRem' = SendWindowSize(sendFlowControlWindow, bytesSent)
    /\ wpc' = "check"
    /\ UNCHANGED <<wLen, wDataWritten, wRet, wStart, wFrames, wErrWake,
                   writeSideVars, err, closed>>
    /\ UNCHANGED <<readSideVars, readerVars, sessionVars>>
    /\ UNCHANGED <<handlerVars, packerVars, congestionVars, sentVars,
                   chanVars, serverVars, codecVars, paramsVars, cacheVars,
                   cryptoVars>>

\* Write, lines 168-188
WriteSend ==
    /\ wpc = "send"
    /\ IF wRem = 0
       THEN \* we must have had an error
            /\ WriteReturn(0, err)
            /\ UNCHANGED <<wFrames, writeSideVars>>
       ELSE LET dataLen == WriteDataLen(wLen, wRem)
                data == WriteChunk(WriteData(wLen), wDataWritten, dataLen)
            IN  \E ok \in BOOLEAN :
                  IF ok
                  THEN /\ wFrames' = Append(wFrames, [Offset |-> writeOffset, Data |-> data])
                       /\ wDataWritten' = wDataWritten + dataLen
                       /\ bytesSent' = bytesSent + dataLen
                       /\ writeOffset' = writeOffset + dataLen
                       /\ wpc' = "loop"
                       /\ wRem' = 0
                       /\ UNCHANGED <<wRet, sendFlowControlWindow>>
                  ELSE \* queueStreamFrame returned an error
                       /\ WriteReturn(0, errQueue)
                       /\ UNCHANGED <<wFrames, writeSideVars>>
    /\ UNCHANGED <<wLen, wStart, wErrWake, err, closed, mutex>>
    /\ UNCHANGED <<readSideVars, readerVars, sessionVars>>
    /\ UNCHANGED <<handlerVars, packerVars, congestionVars, sentVars,
                   chanVars, serverVars, codecVars, paramsVars, cacheVars,
                   cryptoVars>>

\* UpdateSendFlowControlWindow, line 143
UpdateSendFlowControlWindow(n) ==
    /\ spc = "idle"
    /\ sendFlowControlWindow' = UpdateSendWindow(sendFlowControlWindow, n)
    /\ spc' = IF sendFlowControlWindow' # sendFlowControlWindow THEN "bcast" ELSE "idle"
    /\ UNCHANGED <<sFrame, sRet, writeOffset, bytesSent, err, closed, mutex,
                   writerVars>>
    /\ UNCHANGED <<readSideVars, readerVars>>
    /\ UNCHANGED <<handlerVars, packerVars, congestionVars, sentVars,
                   chanVars, serverVars, codecVars, paramsVars, cacheVars,
                   cryptoVars>>

\* UpdateSendFlowControlWindow, line 144: windowUpdateOrErrCond.Broadcast()
Broadcast ==
    /\ spc = "bcast"
    /\ spc' = "idle"
    /\ wpc' = IF wpc = "wait" THEN "woken" ELSE wpc
    /\ UNCHANGED <<sFrame, sRet, writeSideVars, err, closed, mutex,
                   wLen, wDataWritten, wRem, wRet, wStart, wFrames, wErrWake>>
    /\ UNCHANGED <<readSideVars, readerVars>>
    /\ UNCHANGED <<handlerVars, packerVars, congestionVars, sentVars,
                   chanVars, serverVars, codecVars, paramsVars, cacheVars,
                   cryptoVars>>

(***************************************************************************)
(* ackhandler.receivedPacketHandler.  The entropy accumulators and the     *)
(* receive times of the packets are left out: no branch reads them.        *)
(***************************************************************************)
ErrDuplicatePacket == "ReceivedPacketHandler: Duplicate Packet"
errInvalidPacketNumber == "ReceivedPacketHandler: Invalid packet number"
ErrMapAccess == "ErrMapAccess"

\* a nil *frames.AckFrame
NoAckFrame == [LargestObserved |-> 0, NackRanges |-> <<>>]

NoCall == [op |-> "none", arg |-> 0]

\* ReceivedPacket, line 42, ok being the presence in the packet history
IsDuplicate_HistoryIgnored(packetNumber, highest, ok) == packetNumber <= highest

IsDuplicate(packetNumber, highest, ok) == packetNumber <= highest \/ ok

\* getNackRanges, line 95
ExtendRange_Upwards(r) == [r EXCEPT !.LastPacketNumber = @ + 1]

ExtendRange(r) == [r EXCEPT !.FirstPacketNumber = @ - 1]

\* getNackRanges, lines 84-101: the loop from i down to highest + 1
RECURSIVE NackLoop(_, _, _, _, _)
NackLoop(i, highest, history, inRange, ranges) ==
    IF i <= highest
    THEN ranges
    ELSE IF i \notin history
         THEN IF ~inRange
              THEN NackLoop(i - 1, highest, history, TRUE,
                            Append(ranges, [FirstPacketNumber |-> i,
                                            LastPacketNumber |-> i]))
              ELSE NackLoop(i - 1, highest, history, TRUE,
                            [ranges EXCEPT ![Len(ranges)] = ExtendRange(@)])
         ELSE NackLoop(i - 1, highest, history, FALSE, ranges)

getNackRanges(largest, highest, history) ==
    NackLoop(largest, highest, history, FALSE, <<>>)

\* ReceivedPacket, lines 37-63
ReceivedPacket(packetNumber) ==
    /\ hCall' = [op |-> "ReceivedPacket", arg |-> packetNumber]
    /\ IF packetNumber = 0
       THEN /\ hRet' = [frame |-> NoAckFrame, err |-> errInvalidPacketNumber]
            /\ UNCHANGED <<highestInOrderObserved, largestObserved, packetHistory,
                           currentAckFrame, stateChanged, accepted>>
       ELSE IF IsDuplicate(packetNumber, highestInOrderObserved,
                           packetNumber \in packetHistory)
       THEN /\ hRet' = [frame |-> NoAckFrame, err |-> ErrDuplicatePacket]
            /\ UNCHANGED <<highestInOrderObserved, largestObserved, packetHistory,
                           currentAckFrame, stateChanged, accepted>>
       ELSE /\ stateChanged' = TRUE
            /\ currentAckFrame' = NoAckFrame
            /\ largestObserved' =
                   IF packetNumber > largestObserved
                   THEN packetNumber ELSE largestObserved
            /\ highestInOrderObserved' =
                   IF packetNumber = highestInOrderObserved + 1
                   THEN packetNumber ELSE highestInOrderObserved
            /\ packetHistory' = packetHistory \cup {packetNumber}
            /\ accepted' = accepted \cup {packetNumber}
            /\ hRet' = [frame |-> NoAckFrame, err |-> NoErr]
    /\ UNCHANGED <<streamVars, packerVars, congestionVars, sentVars, chanVars,
                   serverVars, codecVars, paramsVars, cacheVars, cryptoVars>>

\* ReceivedStopWaiting, lines 65-76
ReceivedStopWaiting(LeastUnacked) ==
    /\ hCall' = [op |-> "ReceivedStopWaiting", arg |-> LeastUnacked]
    /\ hRet' = [frame |-> NoAckFrame, err |-> NoErr]
    /\ highestInOrderObserved' =
           IF highestInOrderObserved >= LeastUnacked
           THEN highestInOrderObserved ELSE LeastUnacked - 1
    /\ UNCHANGED <<largestObserved, packetHistory, currentAckFrame, stateChanged,
                   accepted>>
    /\ UNCHANGED <<streamVars, packerVars, congestionVars, sentVars, chanVars,
                   serverVars, codecVars, paramsVars, cacheVars, cryptoVars>>

StateAfterGet_AlwaysDequeued(dequeue, changed) == FALSE

\* GetAckFrame, lines 110-112: stateChanged after a call that found it set
StateAfterGet(dequeue, changed) == IF dequeue THEN FALSE ELSE changed

\* GetAckFrame, lines 105-132
GetAckFrame(dequeue) ==
    /\ hCall' = [op |-> "GetAckFrame", arg |-> IF dequeue THEN 1 ELSE 0]
    /\ IF ~stateChanged
       THEN /\ hRet' = [frame |-> NoAckFrame, err |-> NoErr]
            /\ UNCHANGED <<currentAckFrame, stateChanged>>
       ELSE /\ stateChanged' = StateAfterGet(dequeue, stateChanged)
            /\ IF currentAckFrame # NoAckFrame
               THEN /\ hRet' = [frame |-> currentAckFrame, err |-> NoErr]
                    /\ UNCHANGED currentAckFrame
               ELSE IF largestObserved \notin packetHistory
               THEN /\ hRet' = [frame |-> NoAckFrame, err |-> ErrMapAccess]
                    /\ UNCHANGED currentAckFrame
               ELSE LET frame == [LargestObserved |-> largestObserved,
                                  NackRanges |->
                                      getNackRanges(largestObserved,
                                                    highestInOrderObserved,
                                                    packetHistory)]
                    IN  /\ currentAckFrame' = frame
                        /\ hRet' = [frame |-> frame, err |-> NoErr]
    /\ UNCHANGED <<highestInOrderObserved, largestObserved, packetHistory,
                   accepted>>
    /\ UNCHANGED <<streamVars, packerVars, congestionVars, sentVars, chanVars,
                   serverVars, codecVars, paramsVars, cacheVars, cryptoVars>>

\* NewReceivedPacketHandler, lines 31-35
InitHandler ==
    /\ highestInOrderObserved = 0
    /\ largestObserved = 0
    /\ packetHistory = {}
    /\ currentAckFrame = NoAckFrame
    /\ stateChanged = FALSE
    /\ hCall = NoCall
    /\ hRet = [frame |-> NoAckFrame, err |-> NoErr]
    /\ accepted = {}

(***************************************************************************)
(* packetPacker, with the packet number generator, the stream framer and   *)
(* the crypto setup it calls.  A frame is its type and its length.  The    *)
(* public header's length is taken off MaxFrameSize; leastUnacked only     *)
(* chooses the length of the packet number and is left out.                *)
(***************************************************************************)
EncryptionUnencrypted == 1
EncryptionSecure == 2
EncryptionForwardSecure == 3
\* composeNextPacket, line 193: the length of a StreamFrame's DataLen
DataLenLength == 2

Frame(type, length) == [Type |-> type, Length |-> length]

\* a nil frame
NoFrameP == Frame("nil", 0)

StopWaitingFrame == Frame("StopWaitingFrame", StopWaitingFrameLength)
BlockedFrame == Frame("BlockedFrame", BlockedFrameLength)

\* the control frames the session queues
ControlFrames ==
    {Frame("AckFrame", AckFrameLength),
     Frame("WindowUpdateFrame", WindowUpdateFrameLength)}

\* the frames passed to PackConnectionClose: without a reason phrase, and
\* with one too long for a packet
ConnectionCloseFrames ==
    {Frame("ConnectionCloseFrame", ConnectionCloseFrameLength),
     Frame("ConnectionCloseFrame", ConnectionCloseFrameLength + MaxFrameSize)}

\* the crypto stream frame of a handshake packet
CryptoStreamFrame(maxLen) == Frame("CryptoStreamFrame", maxLen)

\* a frame of a packet sent earlier: Frames holds pointers to the frame
\* objects, and Object tells the object of the sent packet from a frame the
\* packer makes
SentFrame(f, object) == [Type |-> f.Type, Length |-> f.Length, Object |-> object]

\* the handshake packets passed to RetransmitNonForwardSecurePacket
HandshakePackets ==
    LET crypto == SentFrame(CryptoStreamFrame(MaxFrameSize
                                              - NonForwardSecurePacketSizeReduction), 1)
        ack == SentFrame(Frame("AckFrame", AckFrameLength), 2)
    IN  {[EncryptionLevel |-> l, Frames |-> fs] :
            l \in EncryptionUnencrypted..EncryptionForwardSecure,
            fs \in {<<>>, <<crypto>>, <<crypto, ack>>}}

\* a nil *ackhandler.Packet
NoHandshakePacket == [EncryptionLevel |-> 0, Frames |-> <<>>]

\* a nil *packedPacket
NoPacket == [number |-> 0, frames |-> <<>>, encryptionLevel |-> 0]

errNotForwardSecure == "PacketPacker BUG: forward-secure encrypted handshake packets don't need special treatment"
errNoStopWaiting == "PacketPacker BUG: Handshake retransmissions must contain a StopWaitingFrame"
errTooLarge == "PacketPacker BUG: packet too large"
errPayloadTooLarge == "Packet Packer BUG: packet payload too large"
errPeekPop == "packetPacker BUG: Peeked and Popped packet numbers do not match"
errNoSealer == "no sealer for the encryption level"

RECURSIVE SumLength(_)
SumLength(fs) == IF fs = <<>> THEN 0 ELSE Head(fs).Length + SumLength(Tail(fs))

\* packetNumberGenerator: Peek returns the next packet number; Pop returns
\* it too, and the generator moves on by one, or by two when it skips a number
Peek(next) == next

PopNext(next, skip) == IF skip THEN next + 2 ELSE next + 1

\* cryptoSetup.GetSealer: the highest encryption level available
GetSealer(level) == level

\* cryptoSetup.GetSealerForCryptoStream: never forward-secure, and for a
\* client never encrypted
GetSealerForCryptoStream(persp, level) ==
    IF persp = "server" /\ level >= EncryptionSecure
    THEN EncryptionSecure
    ELSE EncryptionUnencrypted

\* cryptoSetup.GetSealerWithEncryptionLevel: an error for an encryption
\* level that is not available yet
GetSealerWithEncryptionLevel(want, level) == IF want <= level THEN NoErr ELSE errNoSealer

\* streamFramer.PopStreamFrames(maxLen): the length of the data of the
\* stream frame popped, 0 when there is no data or no room for a byte
PopStreamFrames(queued, maxLen) ==
    IF queued > 0 /\ maxLen > StreamFrameHeaderLength
    THEN Min(queued, maxLen - StreamFrameHeaderLength)
    ELSE 0

\* canSendData, lines 275-280
canSendData_AnyLevel(persp, level) == TRUE

canSendData(persp, level) ==
    IF persp = "client"
    THEN level >= EncryptionSecure
    ELSE level = EncryptionForwardSecure

\* getPublicHeader, lines 220-239
getPublicHeader_StaleNumber(next, persp, level) ==
    [PacketNumber |-> Peek(next) - 1,
     DiversificationNonce |-> (persp = "server" /\ level = EncryptionSecure),
     VersionFlag |-> (persp = "client" /\ level # EncryptionForwardSecure)]

getPublicHeader(next, persp, level) ==
    [PacketNumber |-> Peek(next),
     DiversificationNonce |-> (persp = "server" /\ level = EncryptionSecure),
     VersionFlag |-> (persp = "client" /\ level # EncryptionForwardSecure)]

\* writeAndSealPacket, lines 249-261: writing the frames fails, or the
\* packet is too large
WriteFails(payloadFrames) == SumLength(payloadFrames) > MaxFrameSize

\* writeAndSealPacket, lines 241-273: its error, the generator's next packet
\* number after it, and the number Pop returned at line 267 (0 when Pop was
\* not called)
writeAndSealPacket(publicHeader, payloadFrames, next, skip) ==
    IF WriteFails(payloadFrames)
    THEN [err |-> errTooLarge, next |-> next, num |-> 0]
    ELSE [err |-> IF next # publicHeader.PacketNumber THEN errPeekPop ELSE NoErr,
          next |-> PopNext(next, skip),
          num |-> next]

\* composeNextPacket, lines 168-180: control frames are taken off the end of
\* the queue while they fit
RECURSIVE ComposeControl(_, _, _, _)
ComposeControl(queue, payloadFrames, payloadLength, maxFrameSize) ==
    IF queue = <<>>
    THEN [controlFrames |-> queue, payloadFrames |-> payloadFrames,
          payloadLength |-> payloadLength]
    ELSE LET frame == queue[Len(queue)]
         IN  IF payloadLength + frame.Length > maxFrameSize
             THEN [controlFrames |-> queue, payloadFrames |-> payloadFrames,
                   payloadLength |-> payloadLength]
             ELSE ComposeControl(SubSeq(queue, 1, Len(queue) - 1),
                                 Append(payloadFrames, frame),
                                 payloadLength + frame.Length, maxFrameSize)

\* composeNextPacket, lines 158-210: the payload frames, with the control
\* frames, stream data and BlockedFrames it leaves queued
composeNextPacket(maxFrameSize, canSendStreamFrames) ==
    LET queue == IF stopWaiting # NoFrameP
                 THEN Append(controlFrames, stopWaiting) ELSE controlFrames
        c == ComposeControl(queue, <<>>, 0, maxFrameSize)
        dataLen == PopStreamFrames(streamBytes,
                                   maxFrameSize + DataLenLength - c.payloadLength)
        \* line 197: the last StreamFrame carries no DataLen
        fs == IF dataLen = 0 THEN <<>>
              ELSE <<Frame("StreamFrame",
                           StreamFrameHeaderLength + dataLen - DataLenLength)>>
    IN  IF c.payloadLength > maxFrameSize
        THEN [err |-> errPayloadTooLarge, payloadFrames |-> <<>>,
              controlFrames |-> c.controlFrames, streamBytes |-> streamBytes,
              blockedFrames |-> blockedFrames]
        ELSE IF ~canSendStreamFrames
        THEN [err |-> NoErr, payloadFrames |-> c.payloadFrames,
              controlFrames |-> c.controlFrames, streamBytes |-> streamBytes,
              blockedFrames |-> blockedFrames]
        ELSE [err |-> NoErr, payloadFrames |-> c.payloadFrames \o fs,
              controlFrames |->
                  c.controlFrames \o [i \in 1..blockedFrames |-> BlockedFrame],
              streamBytes |-> streamBytes - dataLen,
              blockedFrames |-> 0]

\* packPacket, line 135
NotEnoughFrames_UpToOne(payloadFrames) == Len(payloadFrames) <= 1

NotEnoughFrames(payloadFrames) == Len(payloadFrames) = 0

\* packPacket, line 139
OnlyStopWaiting_Ignored(payloadFrames, swf) == FALSE

OnlyStopWaiting(payloadFrames, swf) == Len(payloadFrames) = 1 /\ swf # NoFrameP

\* what payloadFrames holds at line 134
PayloadKind(payloadFrames) ==
    IF payloadFrames = <<>> THEN "no frames"
    ELSE IF payloadFrames = <<StopWaitingFrame>> THEN "only StopWaitingFrame"
    ELSE "frames"

\* the packer returns no packet and the error e before line 134
PackerReturnsEarly(e) ==
    /\ pRet' = [packet |-> NoPacket, err |-> e]
    /\ pPayload' = "not composed"
    /\ UNCHANGED <<controlFrames, stopWaiting, nextPacketNumber,
                   hasCryptoStreamFrame, streamBytes, blockedFrames,
                   popped, returned>>

\* packPacket, lines 134-155, with payloadFrames composed
PackerFinish(publicHeader, level, payloadFrames, skip) ==
    /\ pPayload' = PayloadKind(payloadFrames)
    /\ IF NotEnoughFrames(payloadFrames) \/ OnlyStopWaiting(payloadFrames, stopWaiting)
       THEN /\ pRet' = [packet |-> NoPacket, err |-> NoErr]
            /\ UNCHANGED <<stopWaiting, nextPacketNumber, popped, returned>>
       ELSE LET w == writeAndSealPacket(publicHeader, payloadFrames,
                                        nextPacketNumber, skip)
                packet == [number |-> publicHeader.PacketNumber,
                           frames |-> payloadFrames, encryptionLevel |-> level]
            IN  /\ stopWaiting' = NoFrameP
                /\ nextPacketNumber' = w.next
                /\ popped' = IF w.num = 0 THEN popped ELSE Append(popped, w.num)
                /\ pRet' = [packet |-> IF w.err # NoErr THEN NoPacket ELSE packet,
                            err |-> w.err]
                /\ returned' = IF w.err # NoErr THEN returned
                               ELSE Append(returned, packet.number)

\* packPacket, lines 82-156
packPacket(handshakePacketToRetransmit, skip) ==
    LET isHandshakeRetransmission == handshakePacketToRetransmit # NoHandshakePacket
        isCryptoStreamFrame == hasCryptoStreamFrame
        level == IF isHandshakeRetransmission
                 THEN handshakePacketToRetransmit.EncryptionLevel
                 ELSE IF isCryptoStreamFrame
                 THEN GetSealerForCryptoStream(perspective, encLevel)
                 ELSE GetSealer(encLevel)
        publicHeader == getPublicHeader(nextPacketNumber, perspective, level)
    IN  IF isHandshakeRetransmission
           /\ GetSealerWithEncryptionLevel(level, encLevel) # NoErr
        THEN PackerReturnsEarly(GetSealerWithEncryptionLevel(level, encLevel))
        ELSE IF isHandshakeRetransmission
        THEN IF stopWaiting = NoFrameP
             THEN PackerReturnsEarly(errNoStopWaiting)
             ELSE /\ PackerFinish(publicHeader, level,
                                  <<stopWaiting>> \o handshakePacketToRetransmit.Frames,
                                  skip)
                  /\ UNCHANGED <<controlFrames, hasCryptoStreamFrame, streamBytes,
                                 blockedFrames>>
        ELSE IF isCryptoStreamFrame
        THEN LET maxLen == MaxFrameSize - NonForwardSecurePacketSizeReduction
             IN  /\ hasCryptoStreamFrame' = FALSE
                 /\ PackerFinish(publicHeader, level, <<CryptoStreamFrame(maxLen)>>, skip)
                 /\ UNCHANGED <<controlFrames, streamBytes, blockedFrames>>
        ELSE LET c == composeNextPacket(MaxFrameSize, canSendData(perspective, level))
             IN  /\ controlFrames' = c.controlFrames
                 /\ streamBytes' = c.streamBytes
                 /\ blockedFrames' = c.blockedFrames
                 /\ UNCHANGED hasCryptoStreamFrame
                 /\ IF c.err # NoErr
                    THEN /\ pRet' = [packet |-> NoPacket, err |-> c.err]
                         /\ pPayload' = "not composed"
                         /\ UNCHANGED <<stopWaiting, nextPacketNumber, popped,
                                        returned>>
                    ELSE PackerFinish(publicHeader, level, c.payloadFrames, skip)

\* PackPacket, lines 78-80
PackPacket ==
    /\ perspective # "none"
    /\ nextPacketNumber < MaxSentPacketNumber
    /\ pCall' = "PackPacket"
    /\ \E skip \in BOOLEAN : packPacket(NoHandshakePacket, skip)
    /\ UNCHANGED <<perspective, encLevel>>
    /\ UNCHANGED <<streamVars, handlerVars, congestionVars, sentVars,
                   chanVars, serverVars, codecVars, paramsVars, cacheVars,
                   cryptoVars>>

\* RetransmitNonForwardSecurePacket, lines 68-74
RetransmitNonForwardSecurePacket(packet) ==
    /\ perspective # "none"
    /\ nextPacketNumber < MaxSentPacketNumber
    /\ pCall' = "RetransmitNonForwardSecurePacket"
    /\ IF packet.EncryptionLevel = EncryptionForwardSecure
       THEN PackerReturnsEarly(errNotForwardSecure)
       ELSE \E skip \in BOOLEAN : packPacket(packet, skip)
    /\ UNCHANGED <<perspective, encLevel>>
    /\ UNCHANGED <<streamVars, handlerVars, congestionVars, sentVars,
                   chanVars, serverVars, codecVars, paramsVars, cacheVars,
                   cryptoVars>>

\* PackConnectionClose that sends the queued StopWaitingFrame along, as
\* packPacket does at lines 143-145
PackConnectionClose_WithStopWaiting(ccf) ==
    /\ perspective # "none"
    /\ nextPacketNumber < MaxSentPacketNumber
    /\ pCall' = "PackConnectionClose"
    /\ pPayload' = "not composed"
    /\ LET level == GetSealer(encLevel)
           ph == getPublicHeader(nextPacketNumber, perspective, level)
           fs == IF stopWaiting # NoFrameP THEN <<stopWaiting, ccf>> ELSE <<ccf>>
       IN  \E skip \in BOOLEAN :
             LET w == writeAndSealPacket(ph, fs, nextPacketNumber, skip)
             IN  /\ nextPacketNumber' = w.next
                 /\ popped' = IF w.num = 0 THEN popped ELSE Append(popped, w.num)
                 /\ pRet' = [packet |-> [number |-> ph.PacketNumber,
                                         frames |-> fs,
                                         encryptionLevel |-> level],
                             err |-> w.err]
                 /\ returned' = IF w.err # NoErr THEN returned
                                ELSE Append(returned, ph.PacketNumber)
    /\ stopWaiting' = NoFrameP
    /\ UNCHANGED <<controlFrames, hasCryptoStreamFrame, streamBytes,
                   blockedFrames, perspective, encLevel>>
    /\ UNCHANGED <<streamVars, handlerVars, congestionVars, sentVars,
                   chanVars, serverVars, codecVars, paramsVars, cacheVars,
                   cryptoVars>>

\* PackConnectionClose, lines 54-65
PackConnectionClose(ccf) ==
    /\ perspective # "none"
    /\ nextPacketNumber < MaxSentPacketNumber
    /\ pCall' = "PackConnectionClose"
    /\ pPayload' = "not composed"
    /\ LET level == GetSealer(encLevel)
           ph == getPublicHeader(nextPacketNumber, perspective, level)
       IN  \E skip \in BOOLEAN :
             LET w == writeAndSealPacket(ph, <<ccf>>, nextPacketNumber, skip)
             IN  /\ nextPacketNumber' = w.next
                 /\ popped' = IF w.num = 0 THEN popped ELSE Append(popped, w.num)
                 /\ pRet' = [packet |-> [number |-> ph.PacketNumber,
                                         frames |-> <<ccf>>,
                                         encryptionLevel |-> level],
                             err |-> w.err]
                 /\ returned' = IF w.err # NoErr THEN returned
                                ELSE Append(returned, ph.PacketNumber)
    /\ UNCHANGED <<controlFrames, stopWaiting, hasCryptoStreamFrame, streamBytes,
                   blockedFrames, perspective, encLevel>>
    /\ UNCHANGED <<streamVars, handlerVars, congestionVars, sentVars,
                   chanVars, serverVars, codecVars, paramsVars, cacheVars,
                   cryptoVars>>

\* what the last call of the packer left behind: queueing a frame, the
\* framer and the crypto setup leave these alone
packerCallVars == <<pCall, pRet, pPayload, popped, returned>>

\* QueueControlFrameForNextPacket, lines 212-218
QueueControlFrameForNextPacket(f) ==
    /\ perspective # "none"
    /\ IF f.Type = "StopWaitingFrame"
       THEN /\ stopWaiting' = f
            /\ UNCHANGED controlFrames
       ELSE /\ Len(controlFrames) < MaxControlFrames
            /\ controlFrames' = Append(controlFrames, f)
            /\ UNCHANGED stopWaiting
    /\ UNCHANGED <<perspective, nextPacketNumber, encLevel, hasCryptoStreamFrame,
                   streamBytes, blockedFrames, packerCallVars>>
    /\ UNCHANGED <<streamVars, handlerVars, congestionVars, sentVars,
                   chanVars, serverVars, codecVars, paramsVars, cacheVars,
                   cryptoVars>>

\* the session hands stream data to the stream framer
FramerAddStreamData(n) ==
    /\ perspective # "none"
    /\ streamBytes + n <= MaxStreamBytes
    /\ streamBytes' = streamBytes + n
    /\ UNCHANGED <<controlFrames, stopWaiting, perspective, nextPacketNumber,
                   encLevel, hasCryptoStreamFrame, blockedFrames, packerCallVars>>
    /\ UNCHANGED <<streamVars, handlerVars, congestionVars, sentVars,
                   chanVars, serverVars, codecVars, paramsVars, cacheVars,
                   cryptoVars>>

\* the crypto setup writes handshake data to the crypto stream
FramerAddCryptoData ==
    /\ perspective # "none"
    /\ ~hasCryptoStreamFrame
    /\ hasCryptoStreamFrame' = TRUE
    /\ UNCHANGED <<controlFrames, stopWaiting, perspective, nextPacketNumber,
                   encLevel, streamBytes, blockedFrames, packerCallVars>>
    /\ UNCHANGED <<streamVars, handlerVars, congestionVars, sentVars,
                   chanVars, serverVars, codecVars, paramsVars, cacheVars,
                   cryptoVars>>

\* a stream is blocked by flow control: the framer queues a BlockedFrame
FramerAddBlocked ==
    /\ perspective # "none"
    /\ blockedFrames = 0
    /\ Len(controlFrames) < MaxControlFrames
    /\ blockedFrames' = 1
    /\ UNCHANGED <<controlFrames, stopWaiting, perspective, nextPacketNumber,
                   encLevel, hasCryptoStreamFrame, streamBytes, packerCallVars>>
    /\ UNCHANGED <<streamVars, handlerVars, congestionVars, sentVars,
                   chanVars, serverVars, codecVars, paramsVars, cacheVars,
                   cryptoVars>>

\* the handshake reaches the next encryption level
CryptoSetupAdvance ==
    /\ perspective # "none"
    /\ encLevel < EncryptionForwardSecure
    /\ encLevel' = encLevel + 1
    /\ UNCHANGED <<controlFrames, stopWaiting, perspective, nextPacketNumber,
                   hasCryptoStreamFrame, streamBytes, blockedFrames, packerCallVars>>
    /\ UNCHANGED <<streamVars, handlerVars, congestionVars, sentVars,
                   chanVars, serverVars, codecVars, paramsVars, cacheVars,
                   cryptoVars>>

\* newPacketPacker, lines 35-51
newPacketPacker(persp) ==
    /\ perspective = "none"
    /\ perspective' = persp
    /\ UNCHANGED <<controlFrames, stopWaiting, nextPacketNumber, encLevel,
                   hasCryptoStreamFrame, streamBytes, blockedFrames, packerCallVars>>
    /\ UNCHANGED <<streamVars, handlerVars, congestionVars, sentVars,
                   chanVars, serverVars, codecVars, paramsVars, cacheVars,
                   cryptoVars>>

\* before newPacketPacker: nothing is queued, the generator starts at 1, the
\* handshake has not begun
InitPacker ==
    /\ controlFrames = <<>>
    /\ stopWaiting = NoFrameP
    /\ perspective = "none"
    /\ nextPacketNumber = 1
    /\ encLevel = EncryptionUnencrypted
    /\ hasCryptoStreamFrame = FALSE
    /\ streamBytes = 0
    /\ blockedFrames = 0
    /\ pCall = "none"
    /\ pRet = [packet |-> NoPacket, err |-> NoErr]
    /\ pPayload = "not composed"
    /\ popped = <<>>
    /\ returned = <<>>

(***************************************************************************)
(* cubicSender, with the hybrid slow start, the PRR sender and the Cubic   *)
(* window it calls.  Windows are counted in packets, bytes in flight in    *)
(* bytes.  The statistics, and slowStartLargeReduction, which nothing      *)
(* sets, are left out.                                                     *)
(***************************************************************************)
\* lines 11-15
maxBurstBytes == 3 * DefaultTCPMSS
defaultMinimumCongestionWindow == 2
\* renoBeta, in tenths
renoBeta == 7
defaultNumConnections == 2
\* math.MaxInt64, the delay of a sender that may not send
MaxInt64 == -1

\* the packets a congestion event reports acknowledged: none, the first
\* packet, the packet sent last, or the first MaxVector packets together
AckedVectors(largest) ==
    {<<>>} \cup {<<n>> : n \in {1, largest} \cap (1..largest)}
           \cup {[i \in 1..MaxVector |-> i] : n \in {largest} \ (0..(MaxVector - 1))}

\* the packets a congestion event reports lost: none, the first packet, the
\* packet sent last, or both together
LostVectors(largest) ==
    {<<>>} \cup {<<n>> : n \in {1, largest} \cap (1..largest)}
           \cup {<<1, n>> : n \in {largest} \ (0..1)}

\* the bytes in flight reported with a congestion event: none, or a full
\* window
EventBytesInFlight == {0, MaxCongestionWindow * DefaultTCPMSS}

NoSender ==
    [largestSentPacketNumber |-> 0, largestAckedPacketNumber |-> 0,
     largestSentAtLastCutback |-> 0, congestionWindow |-> 0,
     slowstartThreshold |-> 0, minCongestionWindow |-> 0,
     maxTCPCongestionWindow |-> 0, numConnections |-> 0,
     congestionWindowCount |-> 0, reno |-> FALSE]

NoCubicCall ==
    [op |-> "none", acked |-> <<>>, lost |-> <<>>, packetsRetransmitted |-> FALSE]

\* InRecovery, lines 100-102
InRecovery_Never(c) == FALSE

InRecovery(c) ==
    /\ c.largestAckedPacketNumber <= c.largestSentAtLastCutback
    /\ c.largestAckedPacketNumber # 0

\* GetCongestionWindow, lines 108-110
GetCongestionWindow(c) == c.congestionWindow * DefaultTCPMSS

\* GetSlowStartThreshold, lines 112-114
GetSlowStartThreshold(c) == c.slowstartThreshold * DefaultTCPMSS

\* InSlowStart, lines 104-106
InSlowStart(c) == GetCongestionWindow(c) < GetSlowStartThreshold(c)

\* ExitSlowstart, lines 116-118
ExitSlowstart(c) == [c EXCEPT !.slowstartThreshold = c.congestionWindow]

\* RenoBeta, lines 194-200, times the window w, truncated to a packet count
\* as the conversion at line 180 does
RenoBetaTimes(c, w) ==
    (w * (10 * (c.numConnections - 1) + renoBeta)) \div (10 * c.numConnections)

\* cubic.CongestionWindowAfterPacketLoss: the window times the Cubic's beta,
\* which is smoothed over the emulated connections as RenoBeta is
CongestionWindowAfterPacketLoss(c, w) == RenoBetaTimes(c, w)

\* cubic.CongestionWindowAfterAck: the window stays or grows by `grow`
CongestionWindowAfterAck(w, grow) == w + grow

\* isCwndLimited, lines 233-241
isCwndLimited_Never(c, bytesInFlight) == FALSE

isCwndLimited(c, bytesInFlight) ==
    LET congestionWindow == GetCongestionWindow(c)
        availableBytes == congestionWindow - bytesInFlight
        slowStartLimited == InSlowStart(c) /\ bytesInFlight > congestionWindow \div 2
    IN  IF bytesInFlight >= congestionWindow
        THEN TRUE
        ELSE slowStartLimited \/ availableBytes <= maxBurstBytes

\* maybeIncreaseCwnd, line 216: slow start grows the window by one packet
\* for each ACK
SlowStartIncrease_ByTwo(w) == w + 2

SlowStartIncrease(w) == w + 1

\* maybeIncreaseCwnd, lines 204-231
maybeIncreaseCwnd(c, bytesInFlight, grow) ==
    IF ~isCwndLimited(c, bytesInFlight)
    THEN c
    ELSE IF c.congestionWindow >= c.maxTCPCongestionWindow
    THEN c
    ELSE IF InSlowStart(c)
    THEN [c EXCEPT !.congestionWindow = SlowStartIncrease(@)]
    ELSE IF c.reno
    THEN LET count == c.congestionWindowCount + 1
         IN  IF count * c.numConnections >= c.congestionWindow
             THEN [c EXCEPT !.congestionWindow = @ + 1, !.congestionWindowCount = 0]
             ELSE [c EXCEPT !.congestionWindowCount = count]
    ELSE [c EXCEPT !.congestionWindow =
                       Min(c.maxTCPCongestionWindow,
                           CongestionWindowAfterAck(c.congestionWindow, grow))]

\* onPacketAcked, lines 141-152
onPacketAcked(c, ackedPacketNumber, bytesInFlight, grow) ==
    LET c1 == [c EXCEPT !.largestAckedPacketNumber =
                            IF ackedPacketNumber > @ THEN ackedPacketNumber ELSE @]
    IN  IF InRecovery(c1)
        THEN c1
        ELSE maybeIncreaseCwnd(c1, bytesInFlight, grow)

\* the window after the loss without lines 185-187
WindowAfterLoss_NoMinimum(c) ==
    IF c.reno
    THEN RenoBetaTimes(c, c.congestionWindow)
    ELSE CongestionWindowAfterPacketLoss(c, c.congestionWindow)

\* onPacketLost, lines 171-191: the window after the loss and the minimum
\* enforced on it
WindowAfterLoss(c) ==
    LET w == IF c.reno
             THEN RenoBetaTimes(c, c.congestionWindow)
             ELSE CongestionWindowAfterPacketLoss(c, c.congestionWindow)
    IN  IF w < c.minCongestionWindow THEN c.minCongestionWindow ELSE w

\* onPacketLost without the test of line 157: every loss cuts the window
onPacketLost_EveryLoss(c, packetNumber) ==
    [c EXCEPT !.congestionWindow = WindowAfterLoss(c),
              !.slowstartThreshold = WindowAfterLoss(c),
              !.largestSentAtLastCutback = c.largestSentPacketNumber,
              !.congestionWindowCount = 0]

\* onPacketLost, lines 154-192
onPacketLost(c, packetNumber) ==
    IF packetNumber <= c.largestSentAtLastCutback
    THEN c
    ELSE [c EXCEPT !.congestionWindow = WindowAfterLoss(c),
                   !.slowstartThreshold = WindowAfterLoss(c),
                   !.largestSentAtLastCutback = c.largestSentPacketNumber,
                   !.congestionWindowCount = 0]

\* OnCongestionEvent, lines 133-135
RECURSIVE LostLoop(_, _)
LostLoop(c, lostPackets) ==
    IF lostPackets = <<>> THEN c
    ELSE LostLoop(onPacketLost(c, Head(lostPackets)), Tail(lostPackets))

\* OnCongestionEvent, lines 136-138
RECURSIVE AckedLoop(_, _, _, _)
AckedLoop(c, ackedPackets, bytesInFlight, grow) ==
    IF ackedPackets = <<>> THEN c
    ELSE AckedLoop(onPacketAcked(c, Head(ackedPackets), bytesInFlight, grow),
                   Tail(ackedPackets), bytesInFlight, grow)

\* the sender exists
Created == cCall.op # "none"

\* NewCubicSender, lines 61-73
NewCubicSender(reno, initialCongestionWindow, maxCongestionWindow) ==
    /\ ~Created
    /\ cubicSender' =
           [largestSentPacketNumber |-> 0, largestAckedPacketNumber |-> 0,
            largestSentAtLastCutback |-> 0,
            congestionWindow |-> initialCongestionWindow,
            slowstartThreshold |-> maxCongestionWindow,
            minCongestionWindow |-> defaultMinimumCongestionWindow,
            maxTCPCongestionWindow |-> maxCongestionWindow,
            numConnections |-> defaultNumConnections,
            congestionWindowCount |-> 0, reno |-> reno]
    /\ cCall' = [NoCubicCall EXCEPT !.op = "NewCubicSender"]
    /\ cRet' = 0
    /\ UNCHANGED <<streamVars, handlerVars, packerVars, sentVars, chanVars,
                   serverVars, codecVars, paramsVars, cacheVars, cryptoVars>>

\* TimeUntilSend, lines 75-84: the delay it returns; prr is what the PRR
\* sender answers in recovery
TimeUntilSendDelay(c, bytesInFlight, prr) ==
    IF InRecovery(c)
    THEN prr
    ELSE IF GetCongestionWindow(c) > bytesInFlight
    THEN 0
    ELSE MaxInt64

\* TimeUntilSend, lines 75-84
TimeUntilSend(bytesInFlight, prr) ==
    /\ Created
    /\ cCall' = [NoCubicCall EXCEPT !.op = "TimeUntilSend"]
    /\ cRet' = TimeUntilSendDelay(cubicSender, bytesInFlight, prr)
    /\ UNCHANGED cubicSender
    /\ UNCHANGED <<streamVars, handlerVars, packerVars, sentVars, chanVars,
                   serverVars, codecVars, paramsVars, cacheVars, cryptoVars>>

\* OnPacketSent, lines 86-98
OnPacketSent(packetNumber, isRetransmittable) ==
    /\ Created
    /\ cCall' = [NoCubicCall EXCEPT !.op = "OnPacketSent"]
    /\ cRet' = IF isRetransmittable THEN 1 ELSE 0
    /\ cubicSender' = IF isRetransmittable
                      THEN [cubicSender EXCEPT !.largestSentPacketNumber = packetNumber]
                      ELSE cubicSender
    /\ UNCHANGED <<streamVars, handlerVars, packerVars, sentVars, chanVars,
                   serverVars, codecVars, paramsVars, cacheVars, cryptoVars>>

\* OnCongestionEvent, lines 129-139: the sender after the event; shouldExit
\* is what hybridSlowStart.ShouldExitSlowStart answers
AfterCongestionEvent(c, rttUpdated, shouldExit, bytesInFlight, ackedPackets, lostPackets, grow) ==
    LET c1 == IF rttUpdated /\ InSlowStart(c) /\ shouldExit
              THEN ExitSlowstart(c)
              ELSE c
        c2 == LostLoop(c1, lostPackets)
    IN  AckedLoop(c2, ackedPackets, bytesInFlight, grow)

\* OnCongestionEvent, lines 129-139
OnCongestionEvent(rttUpdated, shouldExit, bytesInFlight, ackedPackets, lostPackets, grow) ==
    /\ Created
    /\ cCall' = [NoCubicCall EXCEPT !.op = "OnCongestionEvent",
                                    !.acked = ackedPackets,
                                    !.lost = lostPackets]
    /\ cRet' = 0
    /\ cubicSender' = AfterCongestionEvent(cubicSender, rttUpdated, shouldExit,
                                           bytesInFlight, ackedPackets,
                                           lostPackets, grow)
    /\ UNCHANGED <<streamVars, handlerVars, packerVars, sentVars, chanVars,
                   serverVars, codecVars, paramsVars, cacheVars, cryptoVars>>

\* SetNumEmulatedConnections, lines 259-262
SetNumEmulatedConnections(n) ==
    /\ Created
    /\ cCall' = [NoCubicCall EXCEPT !.op = "SetNumEmulatedConnections"]
    /\ cRet' = 0
    /\ cubicSender' = [cubicSender EXCEPT !.numConnections = IF n > 1 THEN n ELSE 1]
    /\ UNCHANGED <<streamVars, handlerVars, packerVars, sentVars, chanVars,
                   serverVars, codecVars, paramsVars, cacheVars, cryptoVars>>

\* OnRetransmissionTimeout with lines 272 and 273 swapped
OnRetransmissionTimeout_ThresholdAfterWindow(packetsRetransmitted) ==
    /\ Created
    /\ cCall' = [NoCubicCall EXCEPT !.op = "OnRetransmissionTimeout",
                                    !.packetsRetransmitted = packetsRetransmitted]
    /\ cRet' = 0
    /\ cubicSender' =
           IF ~packetsRetransmitted
           THEN [cubicSender EXCEPT !.largestSentAtLastCutback = 0]
           ELSE [cubicSender EXCEPT
                     !.largestSentAtLastCutback = 0,
                     !.slowstartThreshold = cubicSender.minCongestionWindow \div 2,
                     !.congestionWindow = cubicSender.minCongestionWindow]
    /\ UNCHANGED <<streamVars, handlerVars, packerVars, sentVars, chanVars,
                   serverVars, codecVars, paramsVars, cacheVars, cryptoVars>>

\* OnRetransmissionTimeout, lines 265-275
OnRetransmissionTimeout(packetsRetransmitted) ==
    /\ Created
    /\ cCall' = [NoCubicCall EXCEPT !.op = "OnRetransmissionTimeout",
                                    !.packetsRetransmitted = packetsRetransmitted]
    /\ cRet' = 0
    /\ cubicSender' =
           IF ~packetsRetransmitted
           THEN [cubicSender EXCEPT !.largestSentAtLastCutback = 0]
           ELSE [cubicSender EXCEPT
                     !.largestSentAtLastCutback = 0,
                     !.slowstartThreshold = cubicSender.congestionWindow \div 2,
                     !.congestionWindow = cubicSender.minCongestionWindow]
    /\ UNCHANGED <<streamVars, handlerVars, packerVars, sentVars, chanVars,
                   serverVars, codecVars, paramsVars, cacheVars, cryptoVars>>

\* before NewCubicSender
InitCubic ==
    /\ cubicSender = NoSender
    /\ cCall = NoCubicCall
    /\ cRet = 0

(***************************************************************************)
(* outgoingPacketAckHandler.  packetHistory holds the packets sent; the    *)
(* entropy of the packets is left out.                                     *)
(***************************************************************************)
errPacketNumberExists == "Packet number already exists in Packet History"
errPacketNumberNotIncreased == "Packet number must be increased by exactly 1"
errProtocolViolation == "protocol violation"

\* the ACK frames the peer may send
AckFrames ==
    [LargestObserved : 0..(MaxPacketNumber + 1), Entropy : 0..1]

NoSentCall == [op |-> "none", packetNumber |-> 0, ackFrame |-> <<>>]

SentPacket_AnyNewNumber(packetNumber) ==
    /\ oCall' = [NoSentCall EXCEPT !.op = "SentPacket", !.packetNumber = packetNumber]
    /\ IF packetNumber \in sentPacketHistory
       THEN /\ oRet' = errPacketNumberExists
            /\ UNCHANGED <<lastSentPacketNumber, sentPacketHistory>>
       ELSE /\ oRet' = NoErr
            /\ lastSentPacketNumber' = packetNumber
            /\ sentPacketHistory' = sentPacketHistory \cup {packetNumber}
    /\ UNCHANGED <<streamVars, handlerVars, packerVars, congestionVars, chanVars,
                   serverVars, codecVars, paramsVars, cacheVars, cryptoVars>>

\* SentPacket, lines 26-53
SentPacket(packetNumber) ==
    /\ oCall' = [NoSentCall EXCEPT !.op = "SentPacket", !.packetNumber = packetNumber]
    /\ IF packetNumber \in sentPacketHistory
       THEN /\ oRet' = errPacketNumberExists
            /\ UNCHANGED <<lastSentPacketNumber, sentPacketHistory>>
       ELSE IF lastSentPacketNumber + 1 # packetNumber
       THEN /\ oRet' = errPacketNumberNotIncreased
            /\ UNCHANGED <<lastSentPacketNumber, sentPacketHistory>>
       ELSE /\ oRet' = NoErr
            /\ lastSentPacketNumber' = packetNumber
            /\ sentPacketHistory' = sentPacketHistory \cup {packetNumber}
    /\ UNCHANGED <<streamVars, handlerVars, packerVars, congestionVars,
                   chanVars, serverVars, codecVars, paramsVars, cacheVars,
                   cryptoVars>>

\* ReceivedAck, lines 55-57: it returns at once, and has no result
ReceivedAck(ackFrame) ==
    /\ oCall' = [NoSentCall EXCEPT !.op = "ReceivedAck", !.ackFrame = ackFrame]
    /\ oRet' = NoErr
    /\ UNCHANGED <<lastSentPacketNumber, sentPacketHistory>>
    /\ UNCHANGED <<streamVars, handlerVars, packerVars, congestionVars,
                   chanVars, serverVars, codecVars, paramsVars, cacheVars,
                   cryptoVars>>

\* DequeuePacketForRetransmission, lines 59-61
DequeuePacketForRetransmission ==
    /\ oCall' = [NoSentCall EXCEPT !.op = "DequeuePacketForRetransmission"]
    /\ oRet' = NoErr
    /\ UNCHANGED <<lastSentPacketNumber, sentPacketHistory>>
    /\ UNCHANGED <<streamVars, handlerVars, packerVars, congestionVars,
                   chanVars, serverVars, codecVars, paramsVars, cacheVars,
                   cryptoVars>>

\* NewOutgoingPacketAckHandler, lines 19-24
InitSent ==
    /\ lastSentPacketNumber = 0
    /\ sentPacketHistory = {}
    /\ oCall = NoSentCall
    /\ oRet = NoErr

(***************************************************************************)
(* The stream that takes its frames from a buffered channel.  A frame is   *)
(* its offset, the length of its data and its FinBit.                      *)
(***************************************************************************)
\* a nil *frames.StreamFrame
ChanNil == [Offset |-> -1, Len |-> 0, FinBit |-> FALSE]

\* the frames the session delivers
ChanStreamFrames ==
    [Offset : 0..(StreamLen - 1), Len : {1}, FinBit : BOOLEAN]

\* no send is waiting for room in the channel
NoSend == [op |-> "none", item |-> ChanNil]

ChanIdle == [pc |-> "idle", len |-> 0, bytesRead |-> 0]

\* Read returns n and err
ChanReadReturn(n, e) ==
    /\ chanRet' = [n |-> n, err |-> e]
    /\ chanReader' = ChanIdle

\* Read, lines 42-46
ChanReadCall(n) ==
    /\ chanReader.pc = "idle"
    /\ IF currentErr # NoErr
       THEN ChanReadReturn(0, currentErr)
       ELSE /\ chanReader' = [pc |-> "loop", len |-> n, bytesRead |-> 0]
            /\ UNCHANGED chanRet
    /\ UNCHANGED <<streamFrames, currentFrame, chanReadPosInFrame, chanReadOffset,
                   chanFrameQueue, remoteErr, currentErr, chanSession, chanDelivered>>
    /\ UNCHANGED <<streamVars, handlerVars, packerVars, congestionVars,
                   sentVars, serverVars, codecVars, paramsVars, cacheVars,
                   cryptoVars>>

\* getNextFrameInOrder, lines 80-87: the first queued frame at the read
\* offset, 0 when there is none
InOrderIndex(queue, offset) ==
    IF \E i \in DOMAIN queue : queue[i].Offset = offset
    THEN CHOOSE i \in DOMAIN queue :
             /\ queue[i].Offset = offset
             /\ \A j \in 1..(i - 1) : queue[j].Offset # offset
    ELSE 0

\* getNextFrameInOrder, lines 83-84: the last element is moved into
\* position i and the queue is cut by one
RemoveAt(queue, i) ==
    [j \in 1..(Len(queue) - 1) |-> IF j = i THEN queue[Len(queue)] ELSE queue[j]]

\* Read, lines 47-49 and 76, and getNextFrameInOrder, lines 80-87
ChanReadLoop ==
    /\ chanReader.pc = "loop"
    /\ IF chanReader.bytesRead >= chanReader.len
       THEN /\ ChanReadReturn(chanReader.bytesRead, NoErr)
            /\ UNCHANGED <<currentFrame, chanReadPosInFrame, chanFrameQueue>>
       ELSE IF currentFrame # ChanNil
       THEN /\ chanReader' = [chanReader EXCEPT !.pc = "copy"]
            /\ UNCHANGED <<chanRet, currentFrame, chanReadPosInFrame,
                           chanFrameQueue>>
       ELSE LET i == InOrderIndex(chanFrameQueue, chanReadOffset)
            IN  IF i # 0
                THEN /\ currentFrame' = chanFrameQueue[i]
                     /\ chanFrameQueue' = RemoveAt(chanFrameQueue, i)
                     /\ chanReadPosInFrame' = 0
                     /\ chanReader' = [chanReader EXCEPT !.pc = "copy"]
                     /\ UNCHANGED chanRet
                ELSE /\ chanReader' = [chanReader EXCEPT !.pc = "chan"]
                     /\ UNCHANGED <<chanRet, currentFrame, chanReadPosInFrame,
                                    chanFrameQueue>>
    /\ UNCHANGED <<streamFrames, chanReadOffset, remoteErr, currentErr, chanSession,
                   chanDelivered>>
    /\ UNCHANGED <<streamVars, handlerVars, packerVars, congestionVars,
                   sentVars, serverVars, codecVars, paramsVars, cacheVars,
                   cryptoVars>>

\* getNextFrameInOrder, lines 89-109, with nextFrameInChan, lines 112-132:
\* Read waits for a frame only while it has read nothing
ChanReadRecv ==
    /\ chanReader.pc = "chan"
    /\ IF streamFrames = <<>>
       THEN /\ chanReader.bytesRead # 0
            /\ ChanReadReturn(chanReader.bytesRead, NoErr)
            /\ UNCHANGED <<streamFrames, currentFrame, chanReadPosInFrame,
                           chanFrameQueue, currentErr>>
       ELSE LET f == Head(streamFrames)
            IN  /\ streamFrames' = Tail(streamFrames)
                /\ IF f = ChanNil
                   THEN /\ currentErr' = remoteErr
                        /\ ChanReadReturn(chanReader.bytesRead, remoteErr)
                        /\ UNCHANGED <<currentFrame, chanReadPosInFrame,
                                       chanFrameQueue>>
                   ELSE IF f.Offset = chanReadOffset
                   THEN /\ currentFrame' = f
                        /\ chanReadPosInFrame' = 0
                        /\ chanReader' = [chanReader EXCEPT !.pc = "copy"]
                        /\ UNCHANGED <<chanRet, chanFrameQueue, currentErr>>
                   ELSE IF f.Offset < chanReadOffset
                   THEN UNCHANGED <<chanRet, chanReader, currentFrame,
                                    chanReadPosInFrame, chanFrameQueue, currentErr>>
                   ELSE /\ chanFrameQueue' = Append(chanFrameQueue, f)
                        /\ UNCHANGED <<chanRet, chanReader, currentFrame,
                                       chanReadPosInFrame, currentErr>>
    /\ UNCHANGED <<chanReadOffset, remoteErr, chanSession, chanDelivered>>
    /\ UNCHANGED <<streamVars, handlerVars, packerVars, congestionVars,
                   sentVars, serverVars, codecVars, paramsVars, cacheVars,
                   cryptoVars>>

\* Read, lines 61-73
ChanReadCopy ==
    /\ chanReader.pc = "copy"
    /\ LET m == Min(chanReader.len - chanReader.bytesRead,
                    currentFrame.Len - chanReadPosInFrame)
           n == chanReader.bytesRead + m
       IN  /\ chanReadOffset' = chanReadOffset + m
           /\ IF chanReadPosInFrame + m >= currentFrame.Len
              THEN /\ currentFrame' = ChanNil
                   /\ chanReadPosInFrame' = chanReadPosInFrame + m
                   /\ IF currentFrame.FinBit
                      THEN /\ currentErr' = EOF
                           /\ ChanReadReturn(n, EOF)
                      ELSE /\ chanReader' = [chanReader EXCEPT !.pc = "loop",
                                                              !.bytesRead = n]
                           /\ UNCHANGED <<chanRet, currentErr>>
              ELSE /\ chanReadPosInFrame' = chanReadPosInFrame + m
                   /\ chanReader' = [chanReader EXCEPT !.pc = "loop",
                                                      !.bytesRead = n]
                   /\ UNCHANGED <<chanRet, currentFrame, currentErr>>
    /\ UNCHANGED <<streamFrames, chanFrameQueue, remoteErr, chanSession,
                   chanDelivered>>
    /\ UNCHANGED <<streamVars, handlerVars, packerVars, congestionVars,
                   sentVars, serverVars, codecVars, paramsVars, cacheVars,
                   cryptoVars>>

\* a send on the channel: the item goes into the buffer when there is room,
\* and the sender waits when the buffer is full
ChanSend(op, item) ==
    IF Len(streamFrames) < streamFramesCapacity
    THEN /\ streamFrames' = Append(streamFrames, item)
         /\ UNCHANGED chanSession
    ELSE /\ chanSession' = [op |-> op, item |-> item]
         /\ UNCHANGED streamFrames

\* AddStreamFrame, lines 168-171
ChanAddStreamFrame(frame) ==
    /\ chanSession = NoSend
    /\ chanDelivered < MaxChanFrames
    /\ chanDelivered' = chanDelivered + 1
    /\ ChanSend("AddStreamFrame", frame)
    /\ UNCHANGED <<currentFrame, chanReadPosInFrame, chanReadOffset, chanFrameQueue,
                   remoteErr, currentErr, chanReader, chanRet>>
    /\ UNCHANGED <<streamVars, handlerVars, packerVars, congestionVars,
                   sentVars, serverVars, codecVars, paramsVars, cacheVars,
                   cryptoVars>>

\* RegisterError, lines 175-178
ChanRegisterError(e) ==
    /\ chanSession = NoSend
    /\ chanDelivered < MaxChanFrames
    /\ chanDelivered' = chanDelivered + 1
    /\ remoteErr' = e
    /\ ChanSend("RegisterError", ChanNil)
    /\ UNCHANGED <<currentFrame, chanReadPosInFrame, chanReadOffset, chanFrameQueue,
                   currentErr, chanReader, chanRet>>
    /\ UNCHANGED <<streamVars, handlerVars, packerVars, congestionVars,
                   sentVars, serverVars, codecVars, paramsVars, cacheVars,
                   cryptoVars>>

\* the send of lines 169 and 177 goes on once Read has taken a frame out of
\* the channel, and the call returns
ChanSendResume ==
    /\ chanSession # NoSend
    /\ Len(streamFrames) < streamFramesCapacity
    /\ streamFrames' = Append(streamFrames, chanSession.item)
    /\ chanSession' = NoSend
    /\ UNCHANGED <<currentFrame, chanReadPosInFrame, chanReadOffset, chanFrameQueue,
                   remoteErr, currentErr, chanReader, chanRet, chanDelivered>>
    /\ UNCHANGED <<streamVars, handlerVars, packerVars, congestionVars,
                   sentVars, serverVars, codecVars, paramsVars, cacheVars,
                   cryptoVars>>

\* newStream, lines 33-39
InitChan ==
    /\ streamFrames = <<>>
    /\ currentFrame = ChanNil
    /\ chanReadPosInFrame = 0
    /\ chanReadOffset = 0
    /\ chanFrameQueue = <<>>
    /\ remoteErr = NoErr
    /\ currentErr = NoErr
    /\ chanReader = ChanIdle
    /\ chanSession = NoSend
    /\ chanRet = NoRet
    /\ chanDelivered = 0

(***************************************************************************)
(* The server.  ParsePublicHeader and the protocol package are not among   *)
(* the sources: a packet is given by whether its public header parses and  *)
(* by the header's fields.                                                 *)
(***************************************************************************)
ConnectionIDs == 1..MaxConnectionID
VersionNumbers == 1..MaxVersionNumber
RemoteAddrs == {"addr1", "addr2"}

\* protocol.SupportedVersions
SupportedVersions == {1}

IsSupportedVersion_Any(v) == TRUE

\* protocol.IsSupportedVersion
IsSupportedVersion(v) == v \in SupportedVersions

\* the packets the server receives
ReceivedPackets ==
    [parses : BOOLEAN, VersionFlag : BOOLEAN, VersionNumber : VersionNumbers,
     ConnectionID : ConnectionIDs]

\* what WriteToUDP returns
WriteErrors == {NoErr, "writeFailed"}

\* composeVersionNegotiation, lines 121-134: the public header of the reply
\* and the supported versions after it
composeVersionNegotiation(connectionID) ==
    [ConnectionID |-> connectionID, PacketNumber |-> 1, VersionFlag |-> TRUE,
     Versions |-> SupportedVersions]

NoServerCall ==
    [op |-> "none", packet |-> [parses |-> FALSE, VersionFlag |-> FALSE,
                                VersionNumber |-> 1, ConnectionID |-> 1],
     remoteAddr |-> "addr1", written |-> <<>>, created |-> {}, handled |-> {},
     err |-> NoErr]

\* Server.handlePacket, lines 83-119; written holds the WriteToUDP calls,
\* created the sessions made by newSession, handled the sessions whose
\* HandlePacket was called
handlePacket(remoteAddr, packet, writeErr) ==
    LET call == [NoServerCall EXCEPT !.op = "handlePacket", !.packet = packet,
                                     !.remoteAddr = remoteAddr]
    IN  /\ IF ~packet.parses
           THEN /\ srvCall' = [call EXCEPT !.err = "Could not parse public header"]
                /\ UNCHANGED sessions
           ELSE IF packet.VersionFlag /\ ~IsSupportedVersion(packet.VersionNumber)
           THEN /\ srvCall' =
                       [call EXCEPT
                          !.written = <<[data |-> composeVersionNegotiation(
                                                      packet.ConnectionID),
                                         to |-> remoteAddr]>>,
                          !.err = writeErr]
                /\ UNCHANGED sessions
           ELSE /\ writeErr = NoErr
                /\ sessions' = sessions \cup {packet.ConnectionID}
                /\ srvCall' =
                       [call EXCEPT !.created = {packet.ConnectionID} \ sessions,
                                    !.handled = {packet.ConnectionID}]
        /\ (~packet.parses => /\ writeErr = NoErr
                              /\ ~packet.VersionFlag
                              /\ packet.VersionNumber = 1
                              /\ packet.ConnectionID = 1)
        /\ UNCHANGED <<streamVars, handlerVars, packerVars, congestionVars, sentVars,
                       chanVars, codecVars, paramsVars, cacheVars, cryptoVars>>

\* NewServer, lines 36-52
InitServer ==
    /\ sessions = {}
    /\ srvCall = NoServerCall

(***************************************************************************)
(* The ACK frame codec.  A buffer is the sequence of its bytes.  The       *)
(* packages utils and protocol are not among the sources: numbers are      *)
(* written and read low byte first, as by the helpers of utils.go, lines   *)
(* 20-72.                                                                  *)
(***************************************************************************)
RECURSIVE Pow(_, _)
Pow(b, n) == IF n = 0 THEN 1 ELSE b * Pow(b, n - 1)

\* protocol.GetPacketNumberLength: 1, 2, 4 or 6 bytes
GetPacketNumberLength(packetNumber) ==
    IF packetNumber < ByteBase THEN 1
    ELSE IF packetNumber < Pow(ByteBase, 2) THEN 2
    ELSE IF packetNumber < Pow(ByteBase, 4) THEN 4
    ELSE 6

\* utils.WriteUint16, WriteUint32, WriteUint48: the n low bytes of i
WriteUint(i, n) == [k \in 1..n |-> (i \div Pow(ByteBase, k - 1)) % ByteBase]

\* utils.ReadUintN on the bytes of data after position pos
RECURSIVE ReadUintN(_, _, _)
ReadUintN(data, pos, n) ==
    IF n = 0 THEN 0
    ELSE data[pos + 1] + ByteBase * ReadUintN(data, pos + 1, n - 1)

\* the packet numbers at the edges of the four packet number lengths
CodecPacketNumbers ==
    {1, ByteBase - 1, ByteBase, Pow(ByteBase, 2) - 1, Pow(ByteBase, 2),
     Pow(ByteBase, 4) - 1, Pow(ByteBase, 4), Pow(ByteBase, 6) - 1}

\* AckFrameNew, part_009 lines 83-91: the frames without missing packets and
\* those with packet 1 missing (a NackRange is its FirstPacketNumber and its
\* LastPacketNumber)
AckFramesNew ==
    {f \in [LargestObserved : CodecPacketNumbers,
            NackRanges : {<<>>, <<[FirstPacketNumber |-> 1,
                                    LastPacketNumber |-> 1]>>}] :
        f.NackRanges # <<>> => f.LargestObserved > 1}

\* what a parser returns: the frame or the error, whether it panicked, the
\* bytes it read when it returned a frame
ParseReturn(frame, e, read) ==
    [frame |-> frame, err |-> e, panic |-> FALSE, read |-> read]

ParsePanic == [frame |-> NoAckFrame, err |-> NoErr, panic |-> TRUE, read |-> 0]

\* the length in the bits of the type byte
LenOfBits(bits) == IF bits = 0 THEN 1 ELSE 2 * bits

\* AckFrameNew.HasNACK, part_009 lines 247-252
HasNACK(f) == Len(f.NackRanges) > 0

\* AckFrameNew.Write, part_009 lines 178-230: the bytes appended to b, with
\* the delay taken from the clock
WriteAckFrameNew(f, delay) ==
    LET largestObservedLen == GetPacketNumberLength(f.LargestObserved)
        missingSequenceNumberDeltaLen == largestObservedLen
        typeByte == 64
                    + (IF largestObservedLen # 1
                       THEN 4 * (largestObservedLen \div 2) ELSE 0)
                    + (IF missingSequenceNumberDeltaLen # 1
                       THEN missingSequenceNumberDeltaLen \div 2 ELSE 0)
    IN  <<typeByte>>
        \o WriteUint(f.LargestObserved, largestObservedLen)
        \o WriteUint(delay, 2)
        \o WriteUint(f.LargestObserved, missingSequenceNumberDeltaLen)
        \o <<1, 0>>
        \o WriteUint(0, 4)

\* ParseAckFrameNew, part_009 lines 93-176: every read returns io.EOF when
\* the bytes it needs are not all there
ParseAckFrameNew(data) ==
    IF Len(data) < 1 THEN ParseReturn(NoAckFrame, EOF, 0)
    ELSE LET typeByte == data[1]
             hasNACK == (typeByte \div 32) % 2 = 1
             largestObservedLen == LenOfBits((typeByte \div 4) % 4)
             missingSequenceNumberDeltaLen == LenOfBits(typeByte % 4)
             \* the bytes up to and with the number of timestamps
             upToNum == 1 + largestObservedLen + 2 + missingSequenceNumberDeltaLen + 1
         IN  IF hasNACK THEN ParsePanic
             ELSE IF Len(data) < upToNum THEN ParseReturn(NoAckFrame, EOF, 0)
             ELSE LET numTimestamp == data[upToNum]
                      more == IF numTimestamp > 1 THEN numTimestamp - 1 ELSE 0
                      all == upToNum + 1 + 4 + more * (1 + 2)
                  IN  IF Len(data) < all THEN ParseReturn(NoAckFrame, EOF, 0)
                      ELSE ParseReturn(
                               [LargestObserved |->
                                    ReadUintN(data, 1, largestObservedLen),
                                NackRanges |-> <<>>],
                               NoErr, all)

\* AckFrameNew.MinLength, part_009 lines 232-245: it panics for a frame with
\* NACK ranges
MinLengthAckFrameNew(f) ==
    IF HasNACK(f)
    THEN [length |-> 0, panic |-> TRUE]
    ELSE [length |-> 1 + 2 + 1 + 1 + 4
                     + GetPacketNumberLength(f.LargestObserved)
                     + GetPacketNumberLength(f.LargestObserved),
          panic |-> FALSE]

\* bytes.Reader.Read into a slice of n bytes, called times times from
\* position pos: io.EOF when no byte is left, and otherwise the bytes that
\* are left, at most n of them, with a nil error.  The result is the
\* position after the reads, -1 for io.EOF
RECURSIVE ReadRanges(_, _, _, _)
ReadRanges(data, pos, n, times) ==
    IF times = 0 THEN pos
    ELSE IF pos >= Len(data) THEN -1
    ELSE ReadRanges(data, Min(pos + n, Len(data)), n, times - 1)

\* ParseAckFrame, ack_frame.go lines 31-122
ParseAckFrame(data) ==
    IF Len(data) < 1 THEN ParseReturn(NoAckFrame, EOF, 0)
    ELSE LET typeByte == data[1]
             hasNACK == (typeByte \div 32) % 2 = 1
             largestObservedLen == LenOfBits((typeByte \div 4) % 4)
             \* the bytes up to and with the number of timestamps
             upToNum == 1 + 1 + largestObservedLen + 2 + 1
         IN  IF (typeByte \div 16) % 2 = 1 THEN ParsePanic
             ELSE IF Len(data) < upToNum THEN ParseReturn(NoAckFrame, EOF, 0)
             ELSE LET numTimestamp == data[upToNum]
                      more == IF numTimestamp > 1 THEN numTimestamp - 1 ELSE 0
                      all == upToNum + 1 + 4 + more * (1 + 2)
                      frame == [LargestObserved |->
                                    ReadUintN(data, 2, largestObservedLen),
                                NackRanges |-> <<>>]
                  IN  IF Len(data) < all THEN ParseReturn(NoAckFrame, EOF, 0)
                      ELSE IF ~hasNACK THEN ParseReturn(frame, NoErr, all)
                      ELSE IF Len(data) < all + 1
                      THEN ParseReturn(NoAckFrame, EOF, 0)
                      ELSE LET numRanges == data[all + 1]
                               end == ReadRanges(data, all + 1,
                                                 largestObservedLen + 1, numRanges)
                           IN  IF end = -1 THEN ParseReturn(NoAckFrame, EOF, 0)
                               ELSE ParseReturn(frame, NoErr, end)

\* the NACK ranges of a frame on the wire: for each range the delta to the
\* missing packet, of the length in the type byte, and the byte of the
\* range length
RECURSIVE WireRanges(_, _)
WireRanges(n, deltaLen) ==
    IF n = 0 THEN <<>>
    ELSE WriteUint(1, deltaLen) \o <<0>> \o WireRanges(n - 1, deltaLen)

\* the ACK frames on the wire that the peer sends to ParseAckFrame: the type
\* byte with the ACK bit, the NACK bit when there are ranges and the two
\* lengths, the entropy, the largest observed, the delay, one timestamp and
\* the NACK ranges.  AckFrame.Write, ack_frame.go lines 19-29, writes the
\* frames of length bits 2 and 0 without ranges
WireAckFrame(entropy, largest, lenBits, deltaBits, numRanges) ==
    <<64 + (IF numRanges > 0 THEN 32 ELSE 0) + 4 * lenBits + deltaBits, entropy>>
    \o WriteUint(largest, LenOfBits(lenBits))
    \o WriteUint(1, 2)
    \o <<1, 0>>
    \o WriteUint(0, 4)
    \o (IF numRanges > 0
        THEN <<numRanges>> \o WireRanges(numRanges, LenOfBits(deltaBits))
        ELSE <<>>)

\* the frames AckFrame.Write produces, and the frames with NACK ranges whose
\* two lengths are the same
WireAckFrames ==
    {WireAckFrame(e, l, 2, 0, 0) : e \in 0..1, l \in {1, ByteBase}}
    \cup {WireAckFrame(e, 1, bits, bits, n) :
              e \in 0..1, bits \in 0..1, n \in 1..MaxNackRanges}

NoCodecCall ==
    [op |-> "none", frame |-> NoAckFrame, data |-> <<>>, of |-> <<>>, ret |-> NoRet]

\* f.Write(b, version) on an empty buffer
AckWrite(f, delay) ==
    /\ ackBuf' = [frame |-> f, bytes |-> WriteAckFrameNew(f, delay)]
    /\ ackCall' = [NoCodecCall EXCEPT !.op = "Write", !.frame = f, !.ret = NoErr]
    /\ UNCHANGED <<streamVars, handlerVars, packerVars, congestionVars, sentVars,
                   chanVars, serverVars, paramsVars, cacheVars, cryptoVars>>

\* ParseAckFrameNew on a reader of the bytes written
AckParseNew ==
    /\ ackBuf.bytes # <<>>
    /\ ackCall' = [NoCodecCall EXCEPT !.op = "ParseAckFrameNew",
                                      !.data = ackBuf.bytes,
                                      !.of = ackBuf.bytes,
                                      !.ret = ParseAckFrameNew(ackBuf.bytes)]
    /\ UNCHANGED ackBuf
    /\ UNCHANGED <<streamVars, handlerVars, packerVars, congestionVars, sentVars,
                   chanVars, serverVars, paramsVars, cacheVars, cryptoVars>>

\* f.MinLength(version)
AckMinLength(f) ==
    /\ ackCall' = [NoCodecCall EXCEPT !.op = "MinLength", !.frame = f,
                                      !.ret = MinLengthAckFrameNew(f)]
    /\ UNCHANGED ackBuf
    /\ UNCHANGED <<streamVars, handlerVars, packerVars, congestionVars, sentVars,
                   chanVars, serverVars, paramsVars, cacheVars, cryptoVars>>

\* ParseAckFrame on a reader of the first n bytes of a frame on the wire
AckParse(wire, n) ==
    /\ ackCall' = [NoCodecCall EXCEPT !.op = "ParseAckFrame",
                                      !.data = SubSeq(wire, 1, n),
                                      !.of = wire,
                                      !.ret = ParseAckFrame(SubSeq(wire, 1, n))]
    /\ UNCHANGED ackBuf
    /\ UNCHANGED <<streamVars, handlerVars, packerVars, congestionVars, sentVars,
                   chanVars, serverVars, paramsVars, cacheVars, cryptoVars>>

InitCodec ==
    /\ ackBuf = [frame |-> NoAckFrame, bytes |-> <<>>]
    /\ ackCall = NoCodecCall

(***************************************************************************)
(* The ConnectionParametersManager.  A value of the client's map is the    *)
(* number its four bytes hold, or Short when it has fewer than four bytes  *)
(* and utils.ReadUint32 fails.  Durations are in seconds.                  *)
(***************************************************************************)
Short == MaxClientValue + 1
Absent == MaxClientValue + 2

\* the tags SetFromMap looks at
ParameterTags == {"MSPC", "ICSL", "SFCW", "CFCW"}

ParameterValues == {Absent, Short} \cup 0..MaxClientValue

\* the maps the client sends, and the orders in which range can walk them
ClientMaps ==
    {m \in [ParameterTags -> ParameterValues] :
        /\ m["MSPC"] \in {Absent, 0}
        /\ m["SFCW"] \in {Absent, Short, 0}
        /\ m["CFCW"] \in {Absent, Short, MaxClientValue}}

Orders(m) ==
    LET keys == {t \in ParameterTags : m[t] # Absent}
    IN  {o \in [1..Cardinality(keys) -> keys] :
            \A i, j \in DOMAIN o : i # j => o[i] # o[j]}

\* utils.MinDuration
MinDuration(a, b) == IF a < b THEN a ELSE b

\* negotiateIdleConnectionStateLifetime, part_003 lines 303-306
negotiateIdleConnectionStateLifetime(clientValue) ==
    MinDuration(clientValue, MaxIdleConnectionStateLifetime)

\* SetFromMap, part_003 lines 275-298: one pass of the loop for key with
\* value; err is set when ReadUint32 fails
SetParameter(h, key, value) ==
    IF key = "MSPC"
    THEN [h EXCEPT !.params = [h.params EXCEPT ![key] = value]]
    ELSE IF value = Short
    THEN [h EXCEPT !.err = EOF]
    ELSE IF key = "ICSL"
    THEN [h EXCEPT !.idleConnectionStateLifetime =
                       negotiateIdleConnectionStateLifetime(value)]
    ELSE IF key = "SFCW"
    THEN [h EXCEPT !.sendStreamFlowControlWindow = value]
    ELSE [h EXCEPT !.sendConnectionFlowControlWindow = value]

\* SetFromMap, part_003 lines 275-300: the loop over the keys in the order
\* range takes them, left at the first error
RECURSIVE SetLoop(_, _, _)
SetLoop(h, m, order) ==
    IF order = <<>> \/ h.err # NoErr THEN h
    ELSE SetLoop(SetParameter(h, Head(order), m[Head(order)]), m, Tail(order))

NoParamsCall == [op |-> "none", params |-> [t \in ParameterTags |-> Absent]]

\* SetFromMap, part_003 lines 270-301
SetFromMap(m, order) ==
    /\ connectionParameters' = SetLoop([connectionParameters EXCEPT !.err = NoErr],
                                       m, order)
    /\ cpCall' = [op |-> "SetFromMap", params |-> m]
    /\ UNCHANGED <<streamVars, handlerVars, packerVars, congestionVars, sentVars,
                   chanVars, serverVars, codecVars, cacheVars, cryptoVars>>

\* NewConnectionParamatersManager, part_003 lines 257-268; err is what the
\* last SetFromMap returned
InitParams ==
    /\ connectionParameters =
           [params |-> [t \in {"MSPC"} |-> 100],
            idleConnectionStateLifetime |-> InitialIdleConnectionStateLifetime,
            sendStreamFlowControlWindow |-> InitialSendWindow,
            sendConnectionFlowControlWindow |-> InitialSendWindow,
            err |-> NoErr]
    /\ cpCall = NoParamsCall

(***************************************************************************)
(* The client session cache.  Its code is not among the sources: it is     *)
(* modelled from the specification and the tests of ack_frame_test.go,     *)
(* lines 386-489.  An entry of the wrapped cache is the sequence of the    *)
(* numbers encoded in the session state's nonce: the revision, the RTT,    *)
(* the length of the application data and the application data.            *)
(***************************************************************************)
NoEntry == [present |-> FALSE, nonce |-> <<>>]

\* the bytes the application data and the entries are made of
CacheNumbers == 0..(clientSessionStateRevision + 1)

\* the session states Put is given: the RTT and the application data
SessionStates ==
    [rtt : 0..MaxSavedRTT, appData : {<<>>} \cup {<<n>> : n \in CacheNumbers}]

NoSessionState == [rtt |-> 0, appData |-> <<>>]

\* Put: the state written under the current revision
MarshalSession(state) ==
    <<clientSessionStateRevision, state.rtt, Len(state.appData)>> \o state.appData

Unmarshal_AnyRevision(nonce) ==
    IF Len(nonce) < 3 \/ Len(nonce) - 3 < nonce[3]
    THEN [ok |-> FALSE, state |-> NoSessionState]
    ELSE [ok |-> TRUE,
          state |-> [rtt |-> nonce[2], appData |-> SubSeq(nonce, 4, 3 + nonce[3])]]

\* Get: the revision is read and compared, then the state is unmarshalled
UnmarshalSession(nonce) ==
    IF Len(nonce) < 1
    THEN [ok |-> FALSE, state |-> NoSessionState]
    ELSE IF nonce[1] # clientSessionStateRevision
    THEN [ok |-> FALSE, state |-> NoSessionState]
    ELSE IF Len(nonce) < 3 \/ Len(nonce) - 3 < nonce[3]
    THEN [ok |-> FALSE, state |-> NoSessionState]
    ELSE [ok |-> TRUE,
          state |-> [rtt |-> nonce[2], appData |-> SubSeq(nonce, 4, 3 + nonce[3])]]

\* the entries an earlier run of any revision left in the wrapped cache
StoredNonces ==
    UNION {[1..n -> CacheNumbers] : n \in 0..MaxEntryLen}

NoCacheCall == [op |-> "none", ok |-> FALSE, state |-> NoSessionState]

\* clientSessionCache.Put
CachePut(state) ==
    /\ sessionCache' = [present |-> TRUE, nonce |-> MarshalSession(state)]
    /\ cscCall' = [NoCacheCall EXCEPT !.op = "Put", !.state = state]
    /\ UNCHANGED <<streamVars, handlerVars, packerVars, congestionVars, sentVars,
                   chanVars, serverVars, codecVars, paramsVars, cryptoVars>>

\* Put on the wrapped cache, by a client of any revision
CacheStore(nonce) ==
    /\ sessionCache' = [present |-> TRUE, nonce |-> nonce]
    /\ cscCall' = [NoCacheCall EXCEPT !.op = "Store"]
    /\ UNCHANGED <<streamVars, handlerVars, packerVars, congestionVars, sentVars,
                   chanVars, serverVars, codecVars, paramsVars, cryptoVars>>

\* clientSessionCache.Get
CacheGet ==
    /\ cscCall' = IF sessionCache.present
                  THEN [op |-> "Get",
                        ok |-> UnmarshalSession(sessionCache.nonce).ok,
                        state |-> UnmarshalSession(sessionCache.nonce).state]
                  ELSE [NoCacheCall EXCEPT !.op = "Get"]
    /\ UNCHANGED sessionCache
    /\ UNCHANGED <<streamVars, handlerVars, packerVars, congestionVars, sentVars,
                   chanVars, serverVars, codecVars, paramsVars, cryptoVars>>

\* newClientSessionCache on an empty cache
InitCache ==
    /\ sessionCache = NoEntry
    /\ cscCall = NoCacheCall

(***************************************************************************)
(* CryptoSetup (package handshake).  An AEAD is modelled by whether its    *)
(* keys are installed, a packet by the encryption level it was sealed at   *)
(* and by whether it arrived intact: a packet opens with an AEAD exactly   *)
(* when it is intact and was sealed with the keys of that AEAD.            *)
(* HandleCryptoStream runs in its own goroutine, Open and Seal are called  *)
(* by the session; handleCHLO holds the mutex while it installs keys.      *)
(***************************************************************************)
TagCHLO == "CHLO"
errExpectedCHLO == "CryptoSetup: expected CHLO"
errParse == "ParseHandshakeMessage: Unexpected EOF"
errSharedKey == "CalculateSharedKey failed"
errKeyDerivation == "keyDerivation failed"
errSign == "Sign failed"
errWrite == "cryptoStream.Write failed"
errOpen == "message authentication failed"

\* the handshake messages read from the crypto stream: whether the message
\* parses, its tag, and what it carries under TagSCID and TagSNO
TagValues == {"absent", "own", "other"}
HandshakeMessages ==
    [parses : BOOLEAN, tag : {TagCHLO, "REJ"}, SCID : TagValues, SNO : TagValues]

NoMessage == [parses |-> FALSE, tag |-> "REJ", SCID |-> "absent", SNO |-> "absent"]

\* the calls of HandleCryptoStream that may fail: CalculateSharedKey, the
\* two key derivations, Sign, and the Write of the reply
Failures ==
    [sharedKey : BOOLEAN, secure : BOOLEAN, forwardSecure : BOOLEAN,
     sign : BOOLEAN, write : BOOLEAN]

NoFailure ==
    [sharedKey |-> FALSE, secure |-> FALSE, forwardSecure |-> FALSE,
     sign |-> FALSE, write |-> FALSE]

\* the packets handed to Open
SealedPackets ==
    [sealedWith : EncryptionUnencrypted..EncryptionForwardSecure, intact : BOOLEAN]

NoSealedPacket == [sealedWith |-> EncryptionUnencrypted, intact |-> FALSE]

\* AEAD.Open succeeds
OpensWith(packet, level) == packet.intact /\ packet.sealedWith = level

\* Open, lines 123-148: the fields afterwards, the level of the keys that
\* opened the packet and the error
Open_NullFallback(h, packet) ==
    IF h.forwardSecureAEAD /\ OpensWith(packet, EncryptionForwardSecure)
    THEN [h |-> [h EXCEPT !.receivedForwardSecurePacket = TRUE],
          level |-> EncryptionForwardSecure, err |-> NoErr]
    ELSE IF h.secureAEAD /\ OpensWith(packet, EncryptionSecure)
    THEN [h |-> [h EXCEPT !.receivedSecurePacket = TRUE],
          level |-> EncryptionSecure, err |-> NoErr]
    ELSE IF OpensWith(packet, EncryptionUnencrypted)
    THEN [h |-> h, level |-> EncryptionUnencrypted, err |-> NoErr]
    ELSE [h |-> h, level |-> 0, err |-> errOpen]

Open(h, packet) ==
    IF h.forwardSecureAEAD /\ OpensWith(packet, EncryptionForwardSecure)
    THEN [h |-> [h EXCEPT !.receivedForwardSecurePacket = TRUE],
          level |-> EncryptionForwardSecure, err |-> NoErr]
    ELSE IF h.forwardSecureAEAD /\ h.receivedForwardSecurePacket
    THEN [h |-> h, level |-> 0, err |-> errOpen]
    ELSE IF h.secureAEAD /\ OpensWith(packet, EncryptionSecure)
    THEN [h |-> [h EXCEPT !.receivedSecurePacket = TRUE],
          level |-> EncryptionSecure, err |-> NoErr]
    ELSE IF h.secureAEAD /\ h.receivedSecurePacket
    THEN [h |-> h, level |-> 0, err |-> errOpen]
    ELSE IF OpensWith(packet, EncryptionUnencrypted)
    THEN [h |-> h, level |-> EncryptionUnencrypted, err |-> NoErr]
    ELSE [h |-> h, level |-> 0, err |-> errOpen]

\* Seal, lines 151-162: the level of the keys the packet is sealed with
Seal_WhenDerived(h) ==
    IF h.forwardSecureAEAD THEN EncryptionForwardSecure
    ELSE IF h.secureAEAD THEN EncryptionSecure
    ELSE EncryptionUnencrypted

Seal(h) ==
    IF h.receivedForwardSecurePacket THEN EncryptionForwardSecure
    ELSE IF h.secureAEAD THEN EncryptionSecure
    ELSE EncryptionUnencrypted

\* isInchoateCHLO, lines 164-174
isInchoateCHLO_ConfigIDOnly(cryptoData) == cryptoData.SCID # "own"

isInchoateCHLO(cryptoData) ==
    IF cryptoData.SCID # "own" THEN TRUE
    ELSE IF cryptoData.SNO # "own" THEN TRUE
    ELSE FALSE

\* handleInchoateCHLO, lines 176-190
handleInchoateCHLO(fails) ==
    IF fails.sign
    THEN [reply |-> "none", err |-> errSign]
    ELSE [reply |-> "REJ", err |-> NoErr]

\* handleCHLO, lines 192-224: an AEAD is assigned whatever the key
\* derivation returned, nil with an error
handleCHLO(h, fails) ==
    IF fails.sharedKey
    THEN [h |-> h, reply |-> "none", err |-> errSharedKey]
    ELSE IF fails.secure
    THEN [h |-> [h EXCEPT !.secureAEAD = FALSE],
          reply |-> "none", err |-> errKeyDerivation]
    ELSE IF fails.forwardSecure
    THEN [h |-> [h EXCEPT !.secureAEAD = TRUE, !.forwardSecureAEAD = FALSE],
          reply |-> "none", err |-> errKeyDerivation]
    ELSE [h |-> [h EXCEPT !.secureAEAD = TRUE, !.forwardSecureAEAD = TRUE],
          reply |-> "SHLO", err |-> NoErr]

NoCryptoCall ==
    [op |-> "none", msg |-> NoMessage, fails |-> NoFailure,
     packet |-> NoSealedPacket, level |-> 0, reply |-> "none", err |-> NoErr]

\* the reply r is written to the crypto stream, lines 103-106 and 115-118
WriteReply(r, fails) ==
    IF r.err # NoErr THEN [reply |-> "none", err |-> r.err]
    ELSE IF fails.write THEN [reply |-> "none", err |-> errWrite]
    ELSE [reply |-> r.reply, err |-> NoErr]

\* HandleCryptoStream, lines 84-120: one pass of its loop
HandleCryptoStream(msg, fails) ==
    /\ csLoop = "running"
    /\ IF ~msg.parses
       THEN /\ csLoop' = "returned error"
            /\ csCall' = [NoCryptoCall EXCEPT !.op = "HandleCryptoStream",
                             !.msg = msg, !.fails = fails, !.err = errParse]
            /\ UNCHANGED cryptoSetup
       ELSE IF msg.tag # TagCHLO
       THEN /\ csLoop' = "returned error"
            /\ csCall' = [NoCryptoCall EXCEPT !.op = "HandleCryptoStream",
                             !.msg = msg, !.fails = fails, !.err = errExpectedCHLO]
            /\ UNCHANGED cryptoSetup
       ELSE IF ~isInchoateCHLO(msg)
       THEN LET r == handleCHLO(cryptoSetup, fails)
                w == WriteReply(r, fails)
            IN  /\ cryptoSetup' = r.h
                /\ csLoop' = IF w.err # NoErr THEN "returned error"
                             ELSE "returned nil"
                /\ csCall' = [NoCryptoCall EXCEPT !.op = "HandleCryptoStream",
                                 !.msg = msg, !.fails = fails,
                                 !.reply = w.reply, !.err = w.err]
       ELSE LET w == WriteReply(handleInchoateCHLO(fails), fails)
            IN  /\ csLoop' = IF w.err # NoErr THEN "returned error" ELSE "running"
                /\ csCall' = [NoCryptoCall EXCEPT !.op = "HandleCryptoStream",
                                 !.msg = msg, !.fails = fails,
                                 !.reply = w.reply, !.err = w.err]
                /\ UNCHANGED cryptoSetup
    /\ UNCHANGED <<csOpened, csSealed>>
    /\ UNCHANGED <<streamVars, handlerVars, packerVars, congestionVars, sentVars,
                   chanVars, serverVars, codecVars, paramsVars, cacheVars>>

\* the session opens a received packet
CallOpen(packet) ==
    LET r == Open(cryptoSetup, packet)
    IN  /\ cryptoSetup' = r.h
        /\ csCall' = [NoCryptoCall EXCEPT !.op = "Open", !.packet = packet,
                         !.level = r.level, !.err = r.err]
        /\ csOpened' = IF r.err = NoErr THEN csOpened \cup {r.level} ELSE csOpened
        /\ UNCHANGED <<csLoop, csSealed>>
        /\ UNCHANGED <<streamVars, handlerVars, packerVars, congestionVars, sentVars,
                       chanVars, serverVars, codecVars, paramsVars, cacheVars>>

\* the session seals a packet
CallSeal ==
    /\ csCall' = [NoCryptoCall EXCEPT !.op = "Seal", !.level = Seal(cryptoSetup)]
    /\ csSealed' = Seal(cryptoSetup)
    /\ UNCHANGED <<cryptoSetup, csLoop, csOpened>>
    /\ UNCHANGED <<streamVars, handlerVars, packerVars, congestionVars, sentVars,
                   chanVars, serverVars, codecVars, paramsVars, cacheVars>>

\* NewCryptoSetup, lines 68-81, with HandleCryptoStream started
InitCrypto ==
    /\ cryptoSetup = [secureAEAD |-> FALSE, forwardSecureAEAD |-> FALSE,
                      receivedForwardSecurePacket |-> FALSE,
                      receivedSecurePacket |-> FALSE]
    /\ csLoop = "running"
    /\ csCall = NoCryptoCall
    /\ csOpened = {}
    /\ csSealed = EncryptionUnencrypted

(***************************************************************************)
(* Specifications.                                                         *)
(***************************************************************************)
InitStreamWindow(window) ==
    /\ frameQueue = <<>>
    /\ readPosInFrame = 0
    /\ writeOffset = 0
    /\ readOffset = 0
    /\ err = NoErr
    /\ eof = 0
    /\ closed = 0
    /\ mutex = "free"
    /\ bytesSent = 0
    /\ sendFlowControlWindow = InitialSendWindow
    /\ bytesRead = 0
    /\ highestReceived = 0
    /\ receiveFlowControlWindow = window
    /\ rpc = "idle" /\ rLen = 0 /\ rBytesRead = 0 /\ rFrame = NoFrame
    /\ rRet = NoRet /\ rErrWake = FALSE /\ delivered = <<>>
    /\ wpc = "idle" /\ wLen = 0 /\ wDataWritten = 0 /\ wRem = 0
    /\ wRet = NoRet /\ wStart = 0 /\ wFrames = <<>> /\ wErrWake = FALSE
    /\ spc = "idle" /\ sFrame = NoFrame /\ sRet = NoErr
    /\ received = {} /\ finReceived = FALSE

InitStream == InitStreamWindow(InitialReceiveWindow)

InitRest ==
    /\ InitHandler /\ InitPacker /\ InitCubic /\ InitSent /\ InitChan
    /\ InitServer /\ InitCodec /\ InitParams /\ InitCache /\ InitCrypto

Init == InitStream /\ InitRest

\* the reading side of a stream: the application in Read, the session
\* delivering frames and errors
NextRead ==
    \/ \E n \in 1..MaxRead : ReadCall(n)
    \/ ReadLoopExit
    \/ ReadLoop
    \/ ReadWake
    \/ ReadPop
    \/ \E f \in AllFrames : AddStreamFrameCheck(f)
    \/ AddStreamFramePush
    \/ AddStreamFrameSignal
    \/ \E e \in Errors : RegisterError(e)

SpecRead == Init /\ [][NextRead]_vars

\* the reading side of a stream whose receive window has room for a frame
\* beyond a gap
InitWide == InitStreamWindow(InitialReceiveWindow + 1) /\ InitRest

SpecReadWide == InitWide /\ [][NextRead]_vars

\* the writing side of a stream: the application in Write, the session
\* delivering window updates and errors
NextWrite ==
    \/ \E n \in 1..MaxWrite : WriteCall(n)
    \/ WriteLoopExit
    \/ WriteLock
    \/ WriteCheck
    \/ WriteWake
    \/ WriteSend
    \/ \E n \in 1..MaxSendWindow : UpdateSendFlowControlWindow(n)
    \/ Broadcast
    \/ \E e \in Errors : RegisterError(e)

SpecWrite == Init /\ [][NextWrite]_vars

\* both sides of a stream while the session delivers frames and errors, and
\* no window update
NextError ==
    \/ \E n \in 1..MaxRead : ReadCall(n)
    \/ ReadLoopExit
    \/ ReadLoop
    \/ ReadWake
    \/ ReadPop
    \/ \E n \in 1..MaxWrite : WriteCall(n)
    \/ WriteLoopExit
    \/ WriteLock
    \/ WriteCheck
    \/ WriteSend
    \/ \E f \in AllFrames : AddStreamFrameCheck(f)
    \/ AddStreamFramePush
    \/ AddStreamFrameSignal
    \/ \E e \in Errors : RegisterError(e)

SpecError == Init /\ [][NextError]_vars

\* the received-packet handler: packets and STOP_WAITING frames arrive, the
\* session asks for ACK frames
NextHandler ==
    \/ \E pn \in 0..MaxPacketNumber : ReceivedPacket(pn)
    \/ \E lu \in 0..(MaxPacketNumber + 1) : ReceivedStopWaiting(lu)
    \/ \E dequeue \in BOOLEAN : GetAckFrame(dequeue)

SpecHandler == Init /\ [][NextHandler]_vars

\* the received packet handler of a connection on which no STOP_WAITING
\* frame arrives
NextReceive ==
    \/ \E pn \in 0..MaxPacketNumber : ReceivedPacket(pn)
    \/ \E dequeue \in BOOLEAN : GetAckFrame(dequeue)

SpecReceive == Init /\ [][NextReceive]_vars

\* the packet packer: the session queues control frames, the framer and the
\* crypto setup move on, the session asks for packets
NextPacker ==
    \/ \E persp \in {"client", "server"} : newPacketPacker(persp)
    \/ PackPacket
    \/ \E packet \in HandshakePackets : RetransmitNonForwardSecurePacket(packet)
    \/ \E ccf \in ConnectionCloseFrames : PackConnectionClose(ccf)
    \/ \E f \in ControlFrames \cup {StopWaitingFrame} : QueueControlFrameForNextPacket(f)
    \/ \E n \in 1..MaxStreamBytes : FramerAddStreamData(n)
    \/ FramerAddCryptoData
    \/ FramerAddBlocked
    \/ CryptoSetupAdvance

SpecPacker == Init /\ [][NextPacker]_vars

\* the cubic sender: the session reports packets sent, acknowledged and lost
\* and retransmission timeouts, and asks when it may send
NextCubic ==
    \/ \E reno \in BOOLEAN : NewCubicSender(reno, InitialCongestionWindow, MaxCongestionWindow)
    \/ \E bytesInFlight \in 0..(MaxCongestionWindow * DefaultTCPMSS),
          prr \in {0, MaxInt64} :
          TimeUntilSend(bytesInFlight, prr)
    \/ \E isRetransmittable \in BOOLEAN :
          /\ cubicSender.largestSentPacketNumber < MaxCubicPacket
          /\ OnPacketSent(cubicSender.largestSentPacketNumber + 1, isRetransmittable)
    \/ \E rttUpdated \in BOOLEAN,
          ackedPackets \in AckedVectors(cubicSender.largestSentPacketNumber),
          lostPackets \in LostVectors(cubicSender.largestSentPacketNumber) :
          \* ShouldExitSlowStart is asked after an RTT update only; only
          \* acknowledgements read the bytes in flight, and only those of a
          \* Cubic sender grow the window by what the Cubic says
          \E shouldExit \in IF rttUpdated THEN BOOLEAN ELSE {FALSE},
             bytesInFlight \in IF ackedPackets = <<>> THEN {0}
                               ELSE EventBytesInFlight,
             grow \in IF cubicSender.reno \/ ackedPackets = <<>> THEN {0}
                      ELSE 0..1 :
          OnCongestionEvent(rttUpdated, shouldExit, bytesInFlight, ackedPackets,
                            lostPackets, grow)
    \/ \E n \in 0..defaultNumConnections : SetNumEmulatedConnections(n)
    \/ \E packetsRetransmitted \in BOOLEAN : OnRetransmissionTimeout(packetsRetransmitted)

SpecCubic == Init /\ [][NextCubic]_vars

\* the sent-packet handler: the session reports the packets it sends and
\* the ACK frames it receives
NextSent ==
    \/ \E packetNumber \in 0..(MaxPacketNumber + 1) : SentPacket(packetNumber)
    \/ \E ackFrame \in AckFrames : ReceivedAck(ackFrame)
    \/ DequeuePacketForRetransmission

SpecSent == Init /\ [][NextSent]_vars

\* the channel-based stream: the application in Read, the session
\* delivering frames and errors
NextChan ==
    \/ \E n \in 1..MaxRead : ChanReadCall(n)
    \/ ChanReadLoop
    \/ ChanReadRecv
    \/ ChanReadCopy
    \/ \E frame \in ChanStreamFrames : ChanAddStreamFrame(frame)
    \/ \E e \in Errors : ChanRegisterError(e)
    \/ ChanSendResume

SpecChan == Init /\ [][NextChan]_vars


\* the server handling the packets it reads
NextServer ==
    \E remoteAddr \in RemoteAddrs, packet \in ReceivedPackets, writeErr \in WriteErrors :
        handlePacket(remoteAddr, packet, writeErr)

SpecServer == Init /\ [][NextServer]_vars


\* the ACK frame codec: frames written, measured and parsed
NextCodec ==
    \/ \E f \in AckFramesNew, delay \in 0..1 : AckWrite(f, delay)
    \/ AckParseNew
    \/ \E f \in AckFramesNew : AckMinLength(f)
    \/ \E wire \in WireAckFrames : \E n \in 0..Len(wire) : AckParse(wire, n)

SpecCodec == Init /\ [][NextCodec]_vars


\* the connection parameters set from the client's maps
NextParams ==
    \E m \in ClientMaps : \E order \in Orders(m) : SetFromMap(m, order)

SpecParams == Init /\ [][NextParams]_vars


\* the client session cache: states put, entries left by other clients, Get
NextCache ==
    \/ \E state \in SessionStates : CachePut(state)
    \/ \E nonce \in StoredNonces : CacheStore(nonce)
    \/ CacheGet

SpecCache == Init /\ [][NextCache]_vars


\* the crypto setup: handshake messages arrive on the crypto stream while
\* the session opens and seals packets
NextCrypto ==
    \/ \E msg \in HandshakeMessages, fails \in Failures : HandleCryptoStream(msg, fails)
    \/ \E packet \in SealedPackets : CallOpen(packet)
    \/ CallSeal

SpecCrypto == Init /\ [][NextCrypto]_vars

(***************************************************************************)
(* Claims about the stream.                                                *)
(***************************************************************************)
RECURSIVE Concat(_)
Concat(fs) == IF fs = <<>> THEN <<>> ELSE Head(fs).Data \o Concat(Tail(fs))

\* C1: without stream errors, whatever the order of the frames passed to
\* AddStreamFrame and however the calls interleave with Read, the Reads
\* deliver the bytes of the stream in offset order, each once, then io.EOF,
\* and every later Read returns (0, io.EOF): the bytes delivered are always a
\* prefix of the stream, io.EOF is returned only after all of them, and the
\* reader does not stay blocked once every byte and the FIN were pushed.
C1_ReadDeliversStream ==
    err = NoErr =>
        /\ Len(delivered) <= StreamLen
        /\ delivered = SubSeqFrom(StreamData, 0, Len(delivered))
        /\ rpc # "panic"
        /\ (eof = 1 => delivered = StreamData /\ rpc = "idle" /\ rRet.err = EOF)
        /\ ~(/\ rpc = "wait"
             /\ spc = "idle"
             /\ received = 0..(StreamLen - 1)
             /\ finReceived)

\* C2: a successful Write(p) passes frames to queueStreamFrame whose data,
\* concatenated, equal p; the first frame starts at the previous write
\* offset and the write offset advances by len(p).
C2_WriteQueuesExactlyP ==
    (wpc = "idle" /\ wRet.err = NoErr /\ wRet.n > 0) =>
        /\ Concat(wFrames) = WriteData(wRet.n)
        /\ wFrames[1].Offset = wStart
        /\ writeOffset = wStart + wRet.n

\* C3: AddStreamFrame goes on to push a frame only if its end offset is
\* within the advertised receive window (otherwise it returned the
\* flow-control error), and no frame of the frame queue ends beyond the
\* window.
C3_FrameQueueWithinWindow ==
    /\ \A i \in 1..Len(frameQueue) : FrameEnd(frameQueue[i]) <= receiveFlowControlWindow
    /\ (spc = "push" => FrameEnd(sFrame) <= receiveFlowControlWindow)
    /\ (spc = "push" => sRet = NoErr)

\* a frame beyond the window was refused while frames are queued
C3_Witness ==
    /\ sRet = errFlowControlViolation
    /\ spc = "idle"
    /\ highestReceived > receiveFlowControlWindow
    /\ frameQueue # <<>>

RECURSIVE SumLen(_)
SumLen(fs) == IF fs = <<>> THEN 0 ELSE Len(Head(fs).Data) + SumLen(Tail(fs))

\* C4: the bytes Write handed to queueStreamFrame never exceed the send
\* window, and a Write that waits for the window found it exhausted.
C4_SendWithinWindow ==
    /\ bytesSent <= sendFlowControlWindow
    /\ writeOffset = bytesSent
    /\ SumLen(wFrames) = writeOffset - wStart
    /\ (wpc = "wait" => wRem = 0)

\* a Write larger than the window completed in two frames and used up the
\* raised window
C4_Witness ==
    /\ wpc = "idle"
    /\ wRet = [n |-> 2, err |-> NoErr]
    /\ Len(wFrames) = 2
    /\ bytesSent = sendFlowControlWindow

\* C5: a Write blocked on the exhausted window resumes once the window is
\* raised: no Write waits on the condition variable while the window is
\* open and no Broadcast is pending.
C5_NoLostWakeup ==
    (wpc = "wait" /\ spc # "bcast") =>
        SendWindowSize(sendFlowControlWindow, bytesSent) = 0

\* C6: after RegisterError(err), a call that was blocked in Read or Write
\* returns err, and no call stays blocked.
C6_BlockedCallsReturnErr ==
    /\ (rErrWake => rpc # "panic")
    /\ (rErrWake /\ rpc = "idle" => rRet.err = err)
    /\ (wErrWake /\ wpc = "idle" => wRet.err = err)
    /\ (err # NoErr => rpc # "wait" /\ wpc # "wait")

(***************************************************************************)
(* Claims about the received-packet handler.                               *)
(***************************************************************************)
handlerFields ==
    <<highestInOrderObserved, largestObserved, packetHistory, currentAckFrame,
      stateChanged>>

\* C8: ReceivedPacket called with a packet number it accepted before returns
\* ErrDuplicatePacket and leaves largestObserved, highestInOrderObserved, the
\* packet history, stateChanged and currentAckFrame as they were.
C8_DuplicateRejected ==
    [][\A pn \in accepted :
          hCall' = [op |-> "ReceivedPacket", arg |-> pn] =>
              /\ hRet'.err = ErrDuplicatePacket
              /\ UNCHANGED handlerFields]_vars

\* a packet above highestInOrderObserved, held in the packet history, was
\* received again while an ACK is pending
C8_Witness ==
    /\ hCall.op = "ReceivedPacket"
    /\ hCall.arg \in accepted
    /\ hCall.arg > highestInOrderObserved
    /\ hRet.err = ErrDuplicatePacket
    /\ stateChanged
    /\ currentAckFrame # NoAckFrame

\* the packet numbers of the ranges
Nacked(ranges) ==
    UNION {ranges[i].FirstPacketNumber..ranges[i].LastPacketNumber :
               i \in 1..Len(ranges)}

\* the ranges are non-empty, disjoint, strictly descending, and hold exactly
\* the packet numbers above highest and below largest missing from history
AckRangesExact(ranges, highest, largest, history) ==
    /\ \A i \in 1..Len(ranges) :
           ranges[i].FirstPacketNumber <= ranges[i].LastPacketNumber
    /\ \A i \in 1..Len(ranges) : \A j \in 1..Len(ranges) :
           i < j => ranges[j].LastPacketNumber < ranges[i].FirstPacketNumber
    /\ Nacked(ranges) = {n \in (highest + 1)..(largest - 1) : n \notin history}

C10_NoEmptyPacket ==
    pCall = "PackPacket" =>
        /\ pRet.packet # NoPacket =>
               /\ pRet.packet.frames # <<>>
               /\ pRet.packet.frames # <<StopWaitingFrame>>
        /\ pPayload \in {"no frames", "only StopWaitingFrame"} =>
               pRet = [packet |-> NoPacket, err |-> NoErr]
        /\ pPayload = "only StopWaitingFrame" => stopWaiting = StopWaitingFrame

\* PackPacket found only the queued StopWaitingFrame, after the packer sent
\* a packet before
C10_Witness ==
    /\ pCall = "PackPacket"
    /\ pPayload = "only StopWaitingFrame"
    /\ pRet.packet = NoPacket
    /\ stopWaiting = StopWaitingFrame
    /\ controlFrames = <<>>
    /\ returned # <<>>

\* the types of the frames that are no stream frames
ControlFrameTypes ==
    {"AckFrame", "WindowUpdateFrame", "StopWaitingFrame", "BlockedFrame"}

\* the encryption levels at which no application data may be sent: for a
\* server every level but forward-secure, for a client the unencrypted level
DataForbidden(persp, level) ==
    \/ persp = "server" /\ level # EncryptionForwardSecure
    \/ persp = "client" /\ level = EncryptionUnencrypted

\* PackPacket returns a packet sealed at such a level
PacksWithoutData ==
    /\ PackPacket
    /\ pRet'.packet # NoPacket
    /\ DataForbidden(perspective, pRet'.packet.encryptionLevel)

\* C11 as stated: a packet packed by PackPacket at an encryption level at
\* which no application data may be sent holds control frames only, and
\* PackPacket pops nothing from the stream framer for it: neither the crypto
\* stream's frame nor stream data
C11_OnlyControlFrames ==
    [][PacksWithoutData =>
          /\ \A i \in 1..Len(pRet'.packet.frames) :
                 pRet'.packet.frames[i].Type \in ControlFrameTypes
          /\ UNCHANGED <<hasCryptoStreamFrame, streamBytes, blockedFrames>>]_vars

\* C11, amended: a packet packed by PackPacket at an encryption level at
\* which no application data may be sent holds control frames only or is the
\* crypto stream's frame alone, and the stream data queued in the framer stays
\* there
C11_NoStreamData ==
    [][PacksWithoutData =>
          /\ \/ \A i \in 1..Len(pRet'.packet.frames) :
                    pRet'.packet.frames[i].Type \in ControlFrameTypes
             \/ /\ hasCryptoStreamFrame /\ ~hasCryptoStreamFrame'
                /\ Len(pRet'.packet.frames) = 1
                /\ pRet'.packet.frames[1].Type = "CryptoStreamFrame"
          /\ UNCHANGED <<streamBytes, blockedFrames>>]_vars

\* a server that is not forward-secure has packed a packet of control frames
\* while stream data is queued
C11_Witness ==
    /\ pCall = "PackPacket"
    /\ perspective = "server"
    /\ encLevel = EncryptionSecure
    /\ pRet.err = NoErr
    /\ pRet.packet # NoPacket
    /\ pRet.packet.encryptionLevel = EncryptionSecure
    /\ pRet.packet.frames = <<Frame("AckFrame", AckFrameLength)>>
    /\ streamBytes > 0
    /\ controlFrames = <<>>


\* how often the frame f is in the sequence fs
Count(fs, f) == Cardinality({i \in DOMAIN fs : fs[i] = f})

\* the frames the packer holds in controlFrames and stopWaiting
QueuedFrames == ControlFrames \cup {StopWaitingFrame, BlockedFrame}

C13_RetransmissionCopiesFrames ==
    (pCall = "RetransmitNonForwardSecurePacket" /\ pRet.packet # NoPacket) =>
        \A i \in 1..Len(pRet.packet.frames) :
            "Object" \notin DOMAIN pRet.packet.frames[i]

\* the bytes in flight a caller may report
AllBytesInFlight == 0..(MaxCongestionWindow * DefaultTCPMSS)

\* C14: outside recovery TimeUntilSend returns 0 if the bytes in flight and
\* the packet to be sent fit into the congestion window, and an unbounded
\* delay if they do not
C14_SendIffFits ==
    (Created /\ ~InRecovery(cubicSender)) =>
        \A bytesInFlight \in AllBytesInFlight, bytes \in 1..DefaultTCPMSS :
            LET delay == TimeUntilSendDelay(cubicSender, bytesInFlight, 0)
            IN  /\ delay \in {0, MaxInt64}
                /\ delay = 0 <=>
                       bytesInFlight + bytes <= GetCongestionWindow(cubicSender)

\* C15: the loss of a packet sent after the last cutback sets the slow-start
\* threshold to beta times the congestion window and the congestion window
\* to the larger of that threshold and the minimum congestion window
C15_LossSetsThreshold ==
    Created =>
        \A packetNumber \in 1..cubicSender.largestSentPacketNumber :
            packetNumber > cubicSender.largestSentAtLastCutback =>
                LET after == onPacketLost(cubicSender, packetNumber)
                    threshold == RenoBetaTimes(cubicSender,
                                               cubicSender.congestionWindow)
                IN  /\ after.slowstartThreshold = threshold
                    /\ after.congestionWindow =
                           IF threshold > cubicSender.minCongestionWindow
                           THEN threshold
                           ELSE cubicSender.minCongestionWindow

C17_SlowStartGrowsByOne ==
    Created =>
        \A ackedPacketNumber \in 1..cubicSender.largestSentPacketNumber,
           bytesInFlight \in AllBytesInFlight, grow \in 0..1 :
            LET after == onPacketAcked(cubicSender, ackedPacketNumber,
                                       bytesInFlight, grow)
            IN  /\ (/\ cubicSender.congestionWindow < cubicSender.slowstartThreshold
                    /\ after.largestAckedPacketNumber
                           > cubicSender.largestSentAtLastCutback
                    /\ isCwndLimited(cubicSender, bytesInFlight))
                   => after.congestionWindow = cubicSender.congestionWindow + 1
                /\ after.congestionWindow > cubicSender.congestionWindow
                   => after.congestionWindow <= cubicSender.maxTCPCongestionWindow

\* the first packet was acknowledged in slow start and the window is one
\* packet above the initial window
C17_Witness ==
    /\ cCall.op = "OnCongestionEvent"
    /\ cCall.acked = <<1>>
    /\ cubicSender.largestSentPacketNumber = 1
    /\ cubicSender.largestSentAtLastCutback = 0
    /\ cubicSender.congestionWindow = InitialCongestionWindow + 1
    /\ cubicSender.congestionWindow < cubicSender.slowstartThreshold

\* C18: after a congestion event that acknowledged packets, a second event
\* that acknowledges only packets of the first, reports no loss and no new
\* RTT sample, changes neither the congestion window nor the slow-start
\* threshold
C18_RedundantAckChangesNothing ==
    cCall.op = "OnCongestionEvent" =>
        \A n \in 1..Len(cCall.acked), bytesInFlight \in AllBytesInFlight,
           grow \in 0..1 :
            LET after == AfterCongestionEvent(cubicSender, FALSE, FALSE,
                                              bytesInFlight,
                                              SubSeq(cCall.acked, 1, n),
                                              <<>>, grow)
            IN  /\ after.congestionWindow = cubicSender.congestionWindow
                /\ after.slowstartThreshold = cubicSender.slowstartThreshold

\* C19: ReceivedAck with an ACK frame whose LargestObserved is above the
\* largest packet number sent reports a protocol violation and takes no
\* packet out of the packet history
C19_AckAboveSentRejected ==
    (/\ oCall.op = "ReceivedAck"
     /\ oCall.ackFrame.LargestObserved > lastSentPacketNumber)
    => /\ oRet = errProtocolViolation
       /\ sentPacketHistory = 1..lastSentPacketNumber

\* C20: AddStreamFrame and RegisterError of the channel-based stream return
\* without waiting for Read: the session is never held in the send on the
\* channel
C20_SessionNeverWaits ==
    chanSession = NoSend
\* C21: for a packet with the version flag set and a version the server does
\* not support, handlePacket writes exactly one Version Negotiation packet,
\* to the sender's address, creates no session and passes the packet to no
\* session, whether or not the connection ID has a session
C21_VersionNegotiationOnly ==
    [][(/\ srvCall'.op = "handlePacket"
        /\ srvCall'.packet.parses
        /\ srvCall'.packet.VersionFlag
        /\ srvCall'.packet.VersionNumber \notin SupportedVersions)
       => /\ Len(srvCall'.written) = 1
          /\ srvCall'.written[1].to = srvCall'.remoteAddr
          /\ srvCall'.written[1].data.VersionFlag
          /\ srvCall'.written[1].data.ConnectionID = srvCall'.packet.ConnectionID
          /\ srvCall'.created = {}
          /\ srvCall'.handled = {}
          /\ sessions' = sessions]_vars

\* a packet of an unsupported version arrived for a connection that has a
\* session, and one for a connection that has none
C21_Witness ==
    /\ srvCall.op = "handlePacket"
    /\ srvCall.packet.parses
    /\ srvCall.packet.VersionFlag
    /\ srvCall.packet.VersionNumber \notin SupportedVersions
    /\ srvCall.packet.ConnectionID \in sessions
    /\ sessions # ConnectionIDs
    /\ Len(srvCall.written) = 1

\* C22: parsing the bytes that Write produced for a well-formed ACK frame
\* returns a frame with the same largest acknowledged packet and the same
\* ranges, and reads exactly the bytes written
C22_ParseOfWriteIsFrame ==
    ackCall.op = "ParseAckFrameNew" =>
        /\ ~ackCall.ret.panic
        /\ ackCall.ret.err = NoErr
        /\ ackCall.ret.frame.LargestObserved = ackBuf.frame.LargestObserved
        /\ ackCall.ret.frame.NackRanges = ackBuf.frame.NackRanges
        /\ ackCall.ret.read = Len(ackBuf.bytes)

\* C23: parsing a strict prefix of a validly encoded ACK frame, with or
\* without NACK ranges, returns an error and no frame, and does not panic
C23_TruncatedAckIsRejected ==
    (/\ ackCall.op = "ParseAckFrame"
     /\ Len(ackCall.data) < Len(ackCall.of))
    => /\ ~ackCall.ret.panic
       /\ ackCall.ret.err # NoErr
       /\ ackCall.ret.frame = NoAckFrame

\* C24: for every ACK frame MinLength returns the number of bytes that Write
\* appends, whatever the length of the largest acknowledged packet number
C24_MinLengthIsWrittenLength ==
    ackCall.op = "MinLength" =>
        /\ ~ackCall.ret.panic
        /\ ackCall.ret.length = Len(WriteAckFrameNew(ackCall.frame, 0))

\* C25: SetFromMap negotiates the idle connection lifetime as the minimum of
\* the client's value and the server's maximum, and a client value of 0
\* disables the idle timeout: it does not make the lifetime zero
C25_IdleLifetimeNegotiated ==
    (/\ cpCall.op = "SetFromMap"
     /\ cpCall.params["ICSL"] \notin {Absent, Short}
     /\ connectionParameters.err = NoErr)
    => IF cpCall.params["ICSL"] = 0
       THEN connectionParameters.idleConnectionStateLifetime # 0
       ELSE connectionParameters.idleConnectionStateLifetime =
                MinDuration(cpCall.params["ICSL"], MaxIdleConnectionStateLifetime)

\* C26: Get returns ok = false for an entry whose revision is not the
\* current one, that is too short to hold a revision or that does not
\* unmarshal; only a state written under the current revision is returned
C26_StaleSessionRefused ==
    cscCall.op = "Get" =>
        /\ cscCall.ok =>
               /\ sessionCache.present
               /\ Len(sessionCache.nonce) >= 1
               /\ sessionCache.nonce[1] = clientSessionStateRevision
               /\ Len(sessionCache.nonce) >= 3
               /\ Len(sessionCache.nonce) - 3 >= sessionCache.nonce[3]
        /\ \A state \in SessionStates :
               (sessionCache.present /\ sessionCache.nonce = MarshalSession(state))
               => cscCall.ok /\ cscCall.state = state

\* Get refused an entry that another revision wrote and that unmarshals
C26_Witness ==
    /\ cscCall.op = "Get"
    /\ ~cscCall.ok
    /\ sessionCache.present
    /\ Len(sessionCache.nonce) >= 3
    /\ sessionCache.nonce[1] # clientSessionStateRevision
    /\ Len(sessionCache.nonce) - 3 = sessionCache.nonce[3]

\* C27: SentPacket accepts a packet only if its number is one more than the
\* last sent packet number and not in the packet history; otherwise it
\* returns an error and leaves lastSentPacketNumber and the history as they
\* were, so lastSentPacketNumber never decreases
C27_SentPacketInOrder ==
    [][oCall'.op = "SentPacket" =>
          /\ IF /\ oCall'.packetNumber = lastSentPacketNumber + 1
                /\ oCall'.packetNumber \notin sentPacketHistory
             THEN /\ oRet' = NoErr
                  /\ lastSentPacketNumber' = oCall'.packetNumber
                  /\ sentPacketHistory' = sentPacketHistory \cup {oCall'.packetNumber}
             ELSE /\ oRet' # NoErr
                  /\ UNCHANGED <<lastSentPacketNumber, sentPacketHistory>>
          /\ lastSentPacketNumber' >= lastSentPacketNumber]_vars

\* a packet number below the last one sent was offered again and refused
C27_Witness ==
    /\ oCall.op = "SentPacket"
    /\ oRet = errPacketNumberExists
    /\ oCall.packetNumber < lastSentPacketNumber
    /\ sentPacketHistory = 1..lastSentPacketNumber

C29_HighestInOrderIsPrefix ==
    /\ 1..highestInOrderObserved \subseteq packetHistory
    /\ (highestInOrderObserved + 1) \notin packetHistory

\* C30: Read copies bytes only out of a frame that covers the read offset:
\* the bytes a step of Read delivers are the bytes of the stream at the read
\* offset, never those of a frame beyond a gap, also when an error was
\* registered while such a frame is at the head of the frame queue
C30_ReadCopiesAtReadOffset ==
    [][delivered' # delivered =>
          /\ readOffset' > readOffset
          /\ readOffset' <= StreamLen
          /\ delivered' = delivered
                          \o SubSeqFrom(StreamData, readOffset, readOffset' - readOffset)]_vars

\* C31: the stream's error, once set, never changes, and once it is set and
\* the frame queue holds no frame every Read that returns, the first one and
\* all later ones, returns that error
C31_ReadKeepsReturningErr ==
    [][/\ err # NoErr => err' = err
       /\ (err # NoErr /\ frameQueue = <<>> /\ rpc' = "idle" /\ rRet' # rRet)
              => rRet'.err = err]_vars

\* C32: a crypto stream frame that PackPacket pops from the stream framer
\* is in the packet PackPacket returns, also while a StopWaitingFrame is
\* queued
C32_PoppedCryptoFrameIsPacked ==
    [][(hasCryptoStreamFrame /\ ~hasCryptoStreamFrame') =>
          /\ pCall' = "PackPacket"
          /\ pRet'.packet # NoPacket
          /\ \E i \in 1..Len(pRet'.packet.frames) :
                pRet'.packet.frames[i].Type = "CryptoStreamFrame"]_vars

\* C33: PackConnectionClose returns a packet whose only frame is the
\* ConnectionCloseFrame it was given (the call fails exactly for the frame
\* that is too long for a packet), whatever is queued, and it leaves the
\* control frames, the StopWaitingFrame and the stream framer as they were
C33_ConnectionCloseOnly ==
    [][(pCall' = "PackConnectionClose" /\ packerCallVars' # packerCallVars) =>
          /\ Len(pRet'.packet.frames) = 1
          /\ pRet'.packet.frames[1] \in ConnectionCloseFrames
          /\ pRet'.err = NoErr <=> ~WriteFails(pRet'.packet.frames)
          /\ UNCHANGED <<controlFrames, stopWaiting, hasCryptoStreamFrame,
                         streamBytes, blockedFrames>>]_vars

\* PackConnectionClose returned a packet with the ConnectionCloseFrame while
\* a control frame, a StopWaitingFrame, stream data and crypto stream data
\* are queued
C33_Witness ==
    /\ pCall = "PackConnectionClose"
    /\ pRet.err = NoErr
    /\ pRet.packet.frames = <<Frame("ConnectionCloseFrame", ConnectionCloseFrameLength)>>
    /\ controlFrames # <<>>
    /\ stopWaiting # NoFrameP
    /\ streamBytes > 0
    /\ hasCryptoStreamFrame

\* C34: Open never accepts a downgrade: once a packet has been opened with
\* the forward-secure keys, every later packet that does not open with them
\* is rejected; once a packet has been opened with the secure keys, an
\* unencrypted packet is rejected; a failed Open changes no state
C34_OpenNeverDowngrades ==
    [][csCall'.op = "Open" =>
          /\ (EncryptionForwardSecure \in csOpened
              /\ ~OpensWith(csCall'.packet, EncryptionForwardSecure))
                 => csCall'.err # NoErr
          /\ (EncryptionSecure \in csOpened
              /\ csCall'.packet.sealedWith = EncryptionUnencrypted)
                 => csCall'.err # NoErr
          /\ csCall'.err # NoErr =>
                 UNCHANGED <<cryptoSetup, csLoop, csOpened, csSealed>>]_vars

\* an intact unencrypted packet was rejected after a packet had been opened
\* with the secure keys and none with the forward-secure keys
C34_Witness ==
    /\ csCall.op = "Open"
    /\ csCall.packet = [sealedWith |-> EncryptionUnencrypted, intact |-> TRUE]
    /\ csCall.err # NoErr
    /\ csOpened = {EncryptionUnencrypted, EncryptionSecure}

\* C35: Seal uses the forward-secure keys only after a forward-secure
\* packet of the peer has been opened, the secure keys as soon as they are
\* derived, null encryption only while no keys exist, and the level it
\* seals at never decreases
C35_SealLevelNeverDecreases ==
    [][csCall'.op = "Seal" =>
          /\ csCall'.level = EncryptionForwardSecure
                 <=> EncryptionForwardSecure \in csOpened
          /\ csCall'.level = EncryptionSecure
                 <=> (cryptoSetup.secureAEAD
                      /\ EncryptionForwardSecure \notin csOpened)
          /\ csCall'.level = EncryptionUnencrypted
                 <=> (~cryptoSetup.secureAEAD /\ ~cryptoSetup.forwardSecureAEAD)
          /\ csCall'.level >= csSealed]_vars

\* Seal used the secure keys although the forward-secure keys are derived,
\* no forward-secure packet having been opened
C35_Witness ==
    /\ csCall.op = "Seal"
    /\ csCall.level = EncryptionSecure
    /\ cryptoSetup.forwardSecureAEAD
    /\ EncryptionSecure \in csOpened

\* C36: HandleCryptoStream derives the keys and replies with SHLO only for
\* a CHLO that carries the server's config ID and server nonce, after which
\* it terminates; every other CHLO is answered with a REJ without
\* installing keys and the loop continues; a message with another tag ends
\* it with an error without installing keys
C36_EveryInchoateCHLORejected ==
    [][csCall'.op = "HandleCryptoStream" =>
          LET msg == csCall'.msg
              full == msg.tag = TagCHLO /\ msg.SCID = "own" /\ msg.SNO = "own"
          IN  /\ (cryptoSetup' # cryptoSetup \/ csCall'.reply = "SHLO")
                     => (msg.parses /\ full)
              /\ csCall'.reply = "SHLO" =>
                     /\ cryptoSetup'.secureAEAD /\ cryptoSetup'.forwardSecureAEAD
                     /\ csLoop' = "returned nil"
              /\ (msg.parses /\ msg.tag = TagCHLO /\ ~full) =>
                     /\ csCall'.reply = "REJ"
                     /\ UNCHANGED cryptoSetup
                     /\ csLoop' = "running"
              /\ (msg.parses /\ msg.tag # TagCHLO) =>
                     /\ csLoop' = "returned error"
                     /\ csCall'.err # NoErr
                     /\ UNCHANGED cryptoSetup]_vars

\* C36, amended: as above, and an inchoate CHLO is answered with a REJ and
\* the loop continues unless signing the CHLO or writing the REJ fails:
\* then no REJ is sent and HandleCryptoStream returns the error, no keys
\* installed; a full CHLO is answered with SHLO unless a step of handleCHLO
\* or the Write fails
C36_InchoateCHLORejectedUnlessFailure ==
    [][csCall'.op = "HandleCryptoStream" =>
          LET msg == csCall'.msg
              fails == csCall'.fails
              full == msg.tag = TagCHLO /\ msg.SCID = "own" /\ msg.SNO = "own"
          IN  /\ (cryptoSetup' # cryptoSetup \/ csCall'.reply = "SHLO")
                     => (msg.parses /\ full)
              /\ csCall'.reply = "SHLO" =>
                     /\ cryptoSetup'.secureAEAD /\ cryptoSetup'.forwardSecureAEAD
                     /\ csLoop' = "returned nil"
              /\ (msg.parses /\ full) =>
                     /\ csLoop' # "running"
                     /\ csCall'.reply = "SHLO" <=>
                            ~(fails.sharedKey \/ fails.secure
                              \/ fails.forwardSecure \/ fails.write)
                     /\ csCall'.reply # "SHLO" => csCall'.err # NoErr
              /\ (msg.parses /\ msg.tag = TagCHLO /\ ~full) =>
                     /\ UNCHANGED cryptoSetup
                     /\ IF fails.sign \/ fails.write
                        THEN /\ csCall'.reply = "none"
                             /\ csCall'.err # NoErr
                             /\ csLoop' = "returned error"
                        ELSE /\ csCall'.reply = "REJ"
                             /\ csLoop' = "running"
              /\ (msg.parses /\ msg.tag # TagCHLO) =>
                     /\ csLoop' = "returned error"
                     /\ csCall'.err # NoErr
                     /\ UNCHANGED cryptoSetup]_vars

\* a CHLO with the server's config ID and a foreign server nonce was
\* answered with a REJ, no keys installed, and the loop goes on
C36_Witness ==
    /\ csCall.op = "HandleCryptoStream"
    /\ csCall.msg = [parses |-> TRUE, tag |-> TagCHLO, SCID |-> "own", SNO |-> "other"]
    /\ csCall.reply = "REJ"
    /\ ~cryptoSetup.secureAEAD
    /\ csLoop = "running"

\* C37: for every connection ID the server creates at most one session, on
\* the first packet for that ID that parses and carries a supported
\* version; that packet and every later packet of the connection go to the
\* session of their connection ID, and a packet that does not parse creates
\* no session
C37_OneSessionPerConnectionID ==
    [][srvCall'.op = "handlePacket" =>
          LET packet == srvCall'.packet
              supported == /\ packet.parses
                           /\ packet.VersionFlag
                           /\ packet.VersionNumber \in SupportedVersions
          IN  /\ sessions \subseteq sessions'
              /\ srvCall'.created = sessions' \ sessions
              /\ srvCall'.created \subseteq {packet.ConnectionID}
              /\ srvCall'.created # {} => supported
              /\ supported => /\ packet.ConnectionID \in sessions'
                              /\ srvCall'.handled = {packet.ConnectionID}
              /\ (/\ packet.parses
                  /\ packet.ConnectionID \in sessions
                  /\ ~(packet.VersionFlag
                       /\ packet.VersionNumber \notin SupportedVersions))
                     => srvCall'.handled = {packet.ConnectionID}
              /\ ~packet.parses => /\ srvCall'.created = {}
                                   /\ srvCall'.handled = {}]_vars

\* C38: in a congestion event that reports losses only, losses of packets
\* with a number <= largestSentAtLastCutback change neither the congestion
\* window nor the slow-start threshold (which only leaving slow start sets,
\* to the window), and a burst of losses of one flight cuts the window once
C38_OneCutPerFlight ==
    [][(cCall'.op = "OnCongestionEvent" /\ cCall'.acked = <<>>
        /\ cCall'.lost # <<>>) =>
          LET c == cubicSender
              lost == cCall'.lost
          IN  /\ (\A i \in 1..Len(lost) : lost[i] <= c.largestSentAtLastCutback) =>
                     /\ cubicSender'.congestionWindow = c.congestionWindow
                     /\ cubicSender'.largestSentAtLastCutback
                            = c.largestSentAtLastCutback
                     /\ \/ cubicSender'.slowstartThreshold = c.slowstartThreshold
                        \/ /\ InSlowStart(c)
                           /\ cubicSender'.slowstartThreshold = c.congestionWindow
              /\ lost[1] > c.largestSentAtLastCutback =>
                     /\ cubicSender'.congestionWindow = WindowAfterLoss(c)
                     /\ cubicSender'.slowstartThreshold = WindowAfterLoss(c)
                     /\ cubicSender'.largestSentAtLastCutback
                            = c.largestSentPacketNumber]_vars

\* a congestion event reported two packets of one flight lost and the
\* window, cut to the slow-start threshold, is still above the minimum
C38_Witness ==
    /\ cCall.op = "OnCongestionEvent"
    /\ cCall.acked = <<>>
    /\ Len(cCall.lost) = 2
    /\ cubicSender.largestSentAtLastCutback = cubicSender.largestSentPacketNumber
    /\ cubicSender.congestionWindow = cubicSender.slowstartThreshold
    /\ cubicSender.congestionWindow > cubicSender.minCongestionWindow

\* C39: OnRetransmissionTimeout(true) sets the congestion window to the
\* minimum congestion window and the slow-start threshold to half of the
\* window before the call (in whole packets); OnRetransmissionTimeout(false)
\* leaves both; in both cases the sender is not in recovery afterwards
C39_TimeoutCollapsesWindow ==
    [][cCall'.op = "OnRetransmissionTimeout" =>
          /\ cCall'.packetsRetransmitted =>
                 /\ cubicSender'.congestionWindow = cubicSender.minCongestionWindow
                 /\ cubicSender'.slowstartThreshold
                        = cubicSender.congestionWindow \div 2
          /\ ~cCall'.packetsRetransmitted =>
                 /\ cubicSender'.congestionWindow = cubicSender.congestionWindow
                 /\ cubicSender'.slowstartThreshold = cubicSender.slowstartThreshold
          /\ ~(/\ cubicSender'.largestAckedPacketNumber
                      <= cubicSender'.largestSentAtLastCutback
               /\ cubicSender'.largestAckedPacketNumber # 0)]_vars

\* a retransmission timeout with packets retransmitted hit a sender with a
\* window of at least twice the minimum that had acknowledged a packet
C39_Witness ==
    /\ cCall.op = "OnRetransmissionTimeout"
    /\ cCall.packetsRetransmitted
    /\ cubicSender.congestionWindow = cubicSender.minCongestionWindow
    /\ cubicSender.slowstartThreshold >= cubicSender.minCongestionWindow
    /\ cubicSender.largestAckedPacketNumber # 0

\* C40: on a sender created with an initial window of at least the minimum
\* the congestion window stays at or above minCongestionWindow (2 packets)
\* whatever is sent, acknowledged, lost or timed out, and no unsigned field
\* of the sender goes below 0
C40_WindowAtLeastMinimum ==
    Created =>
        /\ cubicSender.minCongestionWindow = defaultMinimumCongestionWindow
        /\ cubicSender.congestionWindow >= cubicSender.minCongestionWindow
        /\ cubicSender.slowstartThreshold >= 0
        /\ cubicSender.largestSentAtLastCutback >= 0
        /\ cubicSender.congestionWindowCount >= 0
        /\ cubicSender.numConnections >= 1

\* a packet was lost while the window was at the minimum: the window after
\* the loss would be below the minimum and is held there
C40_Witness ==
    /\ cCall.op = "OnCongestionEvent"
    /\ cCall.acked = <<>>
    /\ cCall.lost # <<>>
    /\ cubicSender.congestionWindow = cubicSender.minCongestionWindow
    /\ cubicSender.slowstartThreshold = cubicSender.minCongestionWindow
    /\ cubicSender.largestSentAtLastCutback = cubicSender.largestSentPacketNumber
    /\ cubicSender.largestSentAtLastCutback >= cCall.lost[1]
    /\ RenoBetaTimes(cubicSender, cubicSender.congestionWindow)
           < cubicSender.minCongestionWindow

====
